---- MODULE Spec2Model ----
(***************************************************************************)
(* Per-page crawl behaviours for reddit: link discovery on listing pages   *)
(* and comment expansion on thread pages.  One visit of one behaviour      *)
(* class is modelled per behaviour; the class is chosen in Init:           *)
(*                                                                         *)
(*   "o17"     RedditBehavior                src/o17-jisadjisadji.js       *)
(*   "o18"     RedditBehavior                src/o18-9isadnjnsdasad.js     *)
(*   "scroller" RedditScrollerBehavior       src/05-waadwaw.js             *)
(*   "sub05"   RedditBehavior                src/05-waadwaw.js             *)
(*   "archive" RedditInfiniteScrollBrowsertrix                             *)
(*                                           src/01-sadi9sdai0jsai0di0sda.js *)
(*   "store"   the page-side window.__redditArchive object of the same     *)
(*             file, driven by its callbacks alone                         *)
(*   "archive09" RedditArchiveBehavior       src/09.js                     *)
(*   "pair17"  two o17 instances whose visits interleave                   *)
(*   "reuse01" the 01 behaviour run again on a page it has already driven  *)
(*                                                                         *)
(* A step of a visit is the code between two awaits.  What the page shows  *)
(* at an await (anchors, post counts, clickable controls, whether a click  *)
(* throws) is an input drawn with \E.                                      *)
(***************************************************************************)
EXTENDS Integers, Sequences, FiniteSets, TLC

(***************************************************************************)
(* Bounds of the model.                                                    *)
(***************************************************************************)
\* posts a page can show (each is one /r/<sub>/comments/<id>/ permalink)
NumPosts == 2
\* anchors returned by one extraction pass
MaxLinks == 2
\* controls matched by one expansion iteration
MaxElems == 2
\* candidate elements the selectors of one modal dismissal match
MaxModals == 2
\* document.body.scrollHeight is one of 0..MaxHeight
MaxHeight == 2
\* SCROLL_DURATION (300000 ms), in settle waits of WAIT_TIMEOUT (3000 ms)
SCROLL_DURATION == 5
\* shreddit-post elements counted on a page
MaxPostCount == 2

\* Iteration caps, scaled down from the source's values.
\* opts.maxScrolls, 200 in src/o17-jisadjisadji.js:16
maxScrolls == 4
\* opts.maxCommentExpansionLoops, 20 in src/o17-jisadjisadji.js:18
maxCommentExpansionLoops == 3
\* MAX_COMMENT_EXPANSION_LOOPS, 20 in src/o18-9isadnjnsdasad.js:21
MAX_COMMENT_EXPANSION_LOOPS == 5
\* RedditScrollerBehavior.MAX_SCROLLS, 250 in src/05-waadwaw.js:172
MAX_SCROLLS == 7
\* RedditScrollerBehavior.MAX_COMMENT_EXPANDS, 100 in src/05-waadwaw.js:173
MAX_COMMENT_EXPANDS == 5
\* MAX_BATCH_SIZE, 500 in src/01-sadi9sdai0jsai0di0sda.js:43
MAX_BATCH_SIZE == 2
\* MAX_IDLE_CYCLES, 8 in src/01-sadi9sdai0jsai0di0sda.js:40
MAX_IDLE_CYCLES == 3
\* cfg.MAX_IDLE_CYCLES, 12 in src/09.js:253
MAX_IDLE_CYCLES09 == 2
\* cfg.MAX_COMMENT_LOAD_CLICKS, 30 in src/09.js:259
MAX_COMMENT_LOAD_CLICKS == 2
\* MAX_EXPANSIONS of handlePostPage, 25 in src/05-waadwaw.js:53
MAX_EXPANSIONS == 3
\* run() calls the host makes on one instance or one loaded page
MaxRuns == 2

(***************************************************************************)
(* Program constants, at the source's values.                              *)
(***************************************************************************)
maxEmptyScrolls == 3
maxConsecutiveFailures18 == 3
maxConsecutiveFailuresExpand == 3
maxConsecutiveFailuresListing == 5
MAX_SCROLLS_WITHOUT_NEW_POSTS == 3
stableScrollThreshold == 3

(***************************************************************************)
(* URLs.  A URL string is a record of its parts; two strings are equal     *)
(* iff their parts are.  host "" is a relative reference, host "[" does    *)
(* not parse.  query is the sequence of <<key, value>> pairs, frag "" is   *)
(* no fragment.                                                            *)
(***************************************************************************)
Null == [null |-> TRUE]

LocationHost == "www.reddit.com"

Url(host, sub, post, query, frag) ==
    [host |-> host, sub |-> sub, post |-> post, query |-> query, frag |-> frag]

Malformed == Url("[", "foo", 1, << >>, "")

TrackingParams ==
    {"utm_source", "utm_medium", "utm_campaign", "utm_term", "utm_content", "ref"}

\* the query strings the model's pages use
Queries ==
    { << >>,
      << <<"utm_source", "a">> >>,
      << <<"utm_source", "b">> >>,
      << <<"utm_medium", "m">> >>,
      << <<"utm_campaign", "c">> >>,
      << <<"utm_term", "t">> >>,
      << <<"utm_content", "k">> >>,
      << <<"ref", "r">> >>,
      << <<"ref", "r">>, <<"utm_source", "a">> >>,
      << <<"utm_source", "a">>, <<"ref", "r">> >>,
      << <<"x", "1">> >>,
      << <<"utm_medium", "m">>, <<"x", "1">> >>,
      << <<"x", "1">>, <<"utm_medium", "m">> >> }

\* new URL(raw, base): Null when the constructor throws
ParseThrows == Null
ParseUrl(raw, baseHost) ==
    IF raw.host = "[" THEN ParseThrows
    ELSE [raw EXCEPT !.host = IF raw.host = "" THEN baseHost ELSE raw.host]

\* u.searchParams.delete(k)
SearchParamsDelete(query, k) == SelectSeq(query, LAMBDA p : p[1] # k)

\* a faulty key list: "ref" is forgotten
TrackingListNoRef ==
    <<"utm_source", "utm_medium", "utm_campaign", "utm_term", "utm_content">>

\* the keys removed by normalize, in the order of the source's array
TrackingList ==
    <<"utm_source", "utm_medium", "utm_campaign", "utm_term", "utm_content", "ref">>

\* [...].forEach(k => u.searchParams.delete(k))
RECURSIVE DeleteEach(_, _)
DeleteEach(query, keys) ==
    IF keys = << >> THEN query
    ELSE DeleteEach(SearchParamsDelete(query, Head(keys)), Tail(keys))

\* u.hash = ""
DropHash(u) == [u EXCEPT !.frag = ""]

\* window.__redditArchive.normalize(url): Null when new URL throws
normalize(raw) ==
    LET u == ParseUrl(raw, LocationHost)
    IN  IF u = ParseThrows THEN Null
        ELSE [DropHash(u) EXCEPT !.query = DeleteEach(u.query, TrackingList)]

\* a faulty pushIfNew: the canonical form is buffered but never recorded
pushIfNewForgetful(st, rawUrl) ==
    LET normalized == normalize(rawUrl)
    IN  IF normalized = Null THEN [discovered |-> st.discovered, buffer |-> st.buffer, res |-> FALSE]
        ELSE IF normalized \in st.discovered
             THEN [discovered |-> st.discovered, buffer |-> st.buffer, res |-> FALSE]
        ELSE [discovered |-> st.discovered,
              buffer |-> Append(st.buffer, normalized), res |-> TRUE]

\* window.__redditArchive.pushIfNew(rawUrl) on the page-side store
\* st = [discovered, buffer]; res is the value returned
pushIfNew(st, rawUrl) ==
    LET normalized == normalize(rawUrl)
    IN  IF normalized = Null THEN [discovered |-> st.discovered, buffer |-> st.buffer, res |-> FALSE]
        ELSE IF normalized \in st.discovered
             THEN [discovered |-> st.discovered, buffer |-> st.buffer, res |-> FALSE]
        ELSE [discovered |-> st.discovered \cup {normalized},
              buffer |-> Append(st.buffer, normalized), res |-> TRUE]

(***************************************************************************)
(* What a page can show.                                                   *)
(***************************************************************************)
PostHref(p) == Url(LocationHost, "foo", p, << >>, "")

\* a.href of the anchors an extraction pass can return: post permalinks, a
\* permalink with a fragment and one with a tracking parameter
PageHrefs ==
    {PostHref(p) : p \in 1..NumPosts}
        \cup {Url(LocationHost, "foo", 1, << >>, "c1"),
              Url(LocationHost, "foo", 1, << <<"utm_source", "a">> >>, "")}

SeqsUpTo(S, n) == UNION {[1..k -> S] : k \in 0..n}

\* the result of page.$$eval(postSelector, anchors => anchors.map(a => a.href))
\* in o17
LinkLists == SeqsUpTo(PageHrefs, MaxLinks)

\* the same in o18, whose pass parses each href: the page also shows an href
\* the URL parser rejects (a.href returns it as written)
LinkLists18 == SeqsUpTo(PageHrefs \cup {Malformed}, MaxLinks)

\* raw URLs handed to pushIfNew: a.href or post.url, relative or absolute,
\* with and without fragment, and post 1 with every query of Queries
RawUrls ==
    {Malformed}
        \cup {Url(h, "foo", p, << >>, f) :
                h \in {"", LocationHost}, p \in {1, 2}, f \in {"", "c1"}}
        \cup {Url(LocationHost, "foo", 1, q, f) : q \in Queries, f \in {"", "c1"}}
        \cup {Url(LocationHost, "foo", 2, << <<"x", "1">> >>, "")}

\* the parameters of a query that are not tracking parameters, in order
OtherParams(query) == SelectSeq(query, LAMBDA p : p[1] \notin TrackingParams)

\* two raw URLs name the same resource and differ at most by their fragment
\* and by the presence, value or order of tracking parameters
SameLink(u, v) ==
    /\ u # Null /\ v # Null
    /\ u.host # "[" /\ v.host # "["
    /\ u.host = v.host /\ u.sub = v.sub /\ u.post = v.post
    /\ OtherParams(u.query) = OtherParams(v.query)

\* the anchors the driver's page shows to its observer and scans
ScanUrls ==
    {Malformed}
        \cup {Url(LocationHost, "foo", p, q, "") :
                p \in {1, 2}, q \in {<< >>, << <<"x", "1">> >>}}
        \cup {Url(LocationHost, "foo", 1, << >>, "c1"),
              Url(LocationHost, "foo", 1, << <<"utm_source", "a">> >>, "")}

SeqToSet(s) == {s[k] : k \in 1..Len(s)}

(***************************************************************************)
(* State of one visit.                                                     *)
(***************************************************************************)
VARIABLES
    variant,        \* the behaviour class running this visit
    mode,           \* shape of the visit's URL: "listing", "thread", "wiki", "unknown"
    ctxUrl,         \* ctx.url, the URL of the visit
    runs,           \* number of run() calls on this instance and page so far
    installed,      \* window.__redditArchive._installed of the page
    inst,           \* two o17 instances: each one's listing visit
    stores,         \* the discoveredUrls sets of the two instances
    alone,          \* each visit as it runs alone on the same page results
    clickedEl,      \* the element the last clickOneLoadMore of 09 clicked
    clickResults,   \* o18: whether each element.click() of the last iteration returned
    metAnchors,     \* 09: hrefs of the navigable anchors clickOneLoadMore has passed over
    lastScrollHeight,   \* lastScrollHeight of _handleListingPage (o17-sadjiosdajnoa)
    stableScrollCount,  \* stableScrollCount of _handleListingPage (o17-sadjiosdajnoa)
    elapsed,        \* Date.now() - startTime, in settle waits (o17-sadjiosdajnoa)
    equalRun,       \* consecutive most recent iterations whose scroll height
                    \* equalled the one measured by the iteration before
    modalPasses,    \* o18: executions of _closeModals in this visit
    modalResults,   \* o18: whether the click on each candidate of _closeModals returned
    modalAttempts,  \* o18: click attempts _closeModals made
    pc,             \* position of run() between two awaits
    error,          \* the exception that reached the catch of run(): "none", "timeout"
                    \* (the readiness wait), "url" (new URL threw), "page" (another
                    \* page call threw) or "click" (a click threw)
    i,              \* loop variable of the engine's for loop
    sink,           \* calls of the frontier sink so far: ctx.addUrl / context.outlinks.add
    discoveredUrls, \* this.discoveredUrls (o17, o18)
    postsFound,     \* this.state.postsFound (o17)
    emptyScrolls,   \* emptyScrolls of _handleListingPage (o17)
    clickedCount,   \* clickedCount of the last expansion iteration
    attempted,      \* click attempts of the last expansion iteration
    consecutiveFailures,    \* consecutiveFailures of the expansion loops (o18, scroller)
    commentsExpanded,       \* this.state.commentsExpanded (o17)
    initialPostCount,       \* initialPostCount of #handleListingPage (scroller)
    consecutiveScrollsWithNoNewPosts,   \* scroller #handleListingPage
    discoveredPostUrls,     \* discoveredPostUrls of handleSubredditPage (sub05)
    scrollsWithoutNewPosts, \* scrollsWithoutNewPosts of handleSubredditPage (sub05)
    discovered,     \* window.__redditArchive.discovered, as the set of its keys
    buffer,         \* window.__redditArchive.buffer
    addedLocal,     \* addedLocal of run() (archive)
    idleCycles,     \* idleCycles of run() (archive)
    totalDiscovered,        \* totalDiscovered of run() (archive)
    pulledSet,      \* the URLs the pulls have returned over the lifetime of the page
    pulledTwice,    \* a pull returned a URL that a pull had returned before
    \* history, read by no action's guard
    scrolls,        \* scroll actions performed so far
    passes,         \* extraction passes (loop iterations, pulls) completed so far
    idleRun,        \* consecutive most recent passes that admitted nothing
    productive,     \* passes that admitted at least one link
    seen,           \* distinct hrefs the extraction passes have returned
    repeated,       \* a pass returned an href that had been returned before
    unprocessed,    \* candidates of a pass that the pass never examined
    lastCall,       \* the last pushIfNew call of the page-side store alone
    raised,         \* an exception left run() and reached the host
    engines,        \* the engines run() has entered: "listing", "expansion", "wiki"
    modalsRun,      \* modal dismissal has been run
    clickThrows,    \* click attempts of the expansion loop that threw
    expandedMsgs    \* 'Expanded ...' progress messages yielded

vars ==
    <<variant, mode, ctxUrl, runs, installed, inst, stores, alone, clickedEl,
      clickResults, metAnchors, lastScrollHeight, stableScrollCount, elapsed,
      equalRun, modalPasses, modalResults, modalAttempts, pc,
      error, i,
      sink, discoveredUrls,
      postsFound, emptyScrolls,
      clickedCount, attempted, consecutiveFailures, commentsExpanded,
      initialPostCount, consecutiveScrollsWithNoNewPosts, discoveredPostUrls,
      scrollsWithoutNewPosts, discovered, buffer, addedLocal, idleCycles,
      totalDiscovered, pulledSet, pulledTwice, scrolls, passes, idleRun, productive, seen, repeated,
      unprocessed, lastCall, raised, engines, modalsRun, clickThrows,
      expandedMsgs>>

visitVars == <<variant, mode, ctxUrl>>
reuseVars == <<runs, installed>>
pairVars == <<inst, stores, alone>>
hostVars == <<reuseVars, pairVars>>
modalVars == <<modalPasses, modalResults, modalAttempts>>
stableVars == <<lastScrollHeight, stableScrollCount, elapsed, equalRun>>
traceVars == <<clickedEl, clickResults, metAnchors, modalVars>>
listVars17 == <<discoveredUrls, postsFound, emptyScrolls>>
expandVars == <<clickedCount, attempted, consecutiveFailures, commentsExpanded>>
scrollerVars == <<initialPostCount, consecutiveScrollsWithNoNewPosts>>
subVars == <<discoveredPostUrls, scrollsWithoutNewPosts>>
pageVars == <<discovered, buffer>>
pullVars == <<pulledSet, pulledTwice>>
driverVars == <<addedLocal, idleCycles, totalDiscovered, pullVars>>
histVars == <<scrolls, passes, idleRun, productive, seen, repeated, unprocessed>>
passVars == <<passes, idleRun, productive, seen, repeated>>
obsVars == <<raised, engines, modalsRun, clickThrows, expandedMsgs>>

Variants ==
    {"o17", "pair17", "o18", "scroller", "sub05", "archive", "reuse01", "store",
     "archive09", "stable17"}

\* the URL shapes a behaviour is run on
ModesOf(v) ==
    CASE v \in {"o17", "o18", "sub05", "archive09"} -> {"listing", "thread"}
      [] v = "scroller" -> {"listing", "thread", "wiki", "unknown"}
      [] OTHER -> {"listing"}

\* a visit URL on the site: the segments of its pathname between the slashes
\* and whether the pathname ends in a slash
CtxUrl(segs, slash) == [ok |-> TRUE, segs |-> segs, slash |-> slash]

\* a ctx.url on which new URL(ctx.url) throws, e.g. "not a url"
NotAUrl == [ok |-> FALSE, segs |-> << >>, slash |-> FALSE]

\* /^\/r\/[^/]+\/<name>\// tested on the pathname: "/r/", a non-empty segment,
\* "/<name>/"
UnderSection(u, name) ==
    /\ Len(u.segs) >= 3
    /\ u.segs[1] = "r"
    /\ u.segs[2] # ""
    /\ u.segs[3] = name
    /\ (Len(u.segs) > 3 \/ u.slash)

\* const isCommentPage = /^\/r\/[^/]+\/comments\//.test(pathname)
isCommentPage(u) == UnderSection(u, "comments")

\* const isWikiPage = /^\/r\/[^/]+\/wiki\//.test(pathname)
isWikiPage(u) == UnderSection(u, "wiki")

\* a dispatch that tests the wiki pattern first and never the comments one
classifyWikiOnly(u) ==
    CASE ~u.ok -> "unknown"
      [] isWikiPage(u) -> "wiki"
      [] OTHER -> "listing"

\* a dispatch without the wiki branch: a wiki URL falls to the listing handler
classifyNoWiki(u) ==
    CASE ~u.ok -> "unknown"
      [] isCommentPage(u) -> "thread"
      [] OTHER -> "listing"

\* the branch run() of RedditScrollerBehavior takes: new URL(ctx.url) throws
\* ("unknown", no branch), else the if / else if / else on the two tests
classify(u) ==
    CASE ~u.ok -> "unknown"
      [] isCommentPage(u) -> "thread"
      [] isWikiPage(u) -> "wiki"
      [] OTHER -> "listing"

\* the visit URLs of the model
CtxUrls ==
    {NotAUrl,
     CtxUrl(<<"r", "foo", "comments", "abc", "title">>, TRUE),
     CtxUrl(<<"r", "foo", "comments", "abc">>, FALSE),
     CtxUrl(<<"r", "foo", "comments">>, TRUE),
     CtxUrl(<<"r", "foo", "comments">>, FALSE),
     CtxUrl(<<"r", "foo", "wiki", "index">>, FALSE),
     CtxUrl(<<"r", "foo", "wiki">>, FALSE),
     CtxUrl(<<"r", "foo", "wiki", "comments", "x">>, FALSE),
     CtxUrl(<<"r", "foo", "comments", "abc", "wiki">>, FALSE),
     CtxUrl(<<"r", "foo">>, TRUE),
     CtxUrl(<<"r", "foo">>, FALSE),
     CtxUrl(<<"r", "", "comments", "abc">>, TRUE),
     CtxUrl(<<"user", "bar", "comments">>, TRUE),
     CtxUrl(<< >>, TRUE)}

\* the visit URLs of a behaviour run on a page of shape m
CtxUrlsOf(v, m) ==
    IF v = "scroller" THEN {u \in CtxUrls : classify(u) = m}
    ELSE IF v = "sub05" /\ m = "listing"
    THEN {CtxUrl(<<"r", "foo">>, TRUE), CtxUrl(<<"r", "bar">>, TRUE),
          CtxUrl(<<"user", "bar">>, TRUE), CtxUrl(<< >>, TRUE)}
    ELSE IF m = "thread" THEN {CtxUrl(<<"r", "foo", "comments", "abc", "title">>, TRUE)}
    ELSE {CtxUrl(<<"r", "foo">>, TRUE)}

\* the two RedditBehavior instances of o17 the host runs side by side
Instances == {1, 2}

\* a listing visit of o17 at the entry of _handleListingPage
NewVisit17 == [pc |-> "listInit", i |-> 0, emptyScrolls |-> 0, sink |-> << >>]

\* an element matched by the selector of clickOneLoadMore: its tag, its href
\* attribute ("" when absent or empty), whether isVisible accepts it, and what
\* marks it as a load-more control: a text phrase, the morecomments class, a
\* data-click-id, or nothing
Elem(tag, href, visible, marker) ==
    [tag |-> tag, href |-> href, visible |-> visible, marker |-> marker]

\* no element
NoElem == Elem("", "", FALSE, "none")

\* no pushIfNew call yet
NoCall ==
    [raw |-> Null, res |-> FALSE, fresh |-> FALSE, pushed |-> 0, stored |-> 0,
     prevSame |-> FALSE, prevAlike |-> FALSE, prevRes |-> FALSE, sameCanon |-> FALSE]

\* the state after construction: constructor of o17 (lines 31-37) and o18
\* (24-28), init() of o17 (22-29), the locals of each run() at their
\* declarations
Init ==
    /\ variant \in Variants
    /\ mode \in ModesOf(variant)
    /\ ctxUrl \in CtxUrlsOf(variant, mode)
    /\ runs = 1
    /\ installed = FALSE
    /\ inst = [k \in Instances |-> NewVisit17]
    /\ stores = [k \in Instances |-> {}]
    /\ alone = [k \in Instances |-> [v |-> NewVisit17, store |-> {}]]
    /\ clickedEl = NoElem
    /\ clickResults = << >>
    /\ metAnchors = {}
    /\ lastScrollHeight = 0
    /\ stableScrollCount = 0
    /\ elapsed = 0
    /\ equalRun = 0
    /\ modalPasses = 0
    /\ modalResults = << >>
    /\ modalAttempts = 0
    /\ pc = CASE variant = "store" -> "page"
              [] variant = "pair17" -> "pair"
              [] OTHER -> "start"
    /\ error = "none"
    /\ i = 0
    /\ sink = << >>
    /\ discoveredUrls = {}
    /\ postsFound = 0
    /\ emptyScrolls = 0
    /\ clickedCount = 0
    /\ attempted = 0
    /\ consecutiveFailures = 0
    /\ commentsExpanded = 0
    /\ initialPostCount = 0
    /\ consecutiveScrollsWithNoNewPosts = 0
    /\ discoveredPostUrls = {}
    /\ scrollsWithoutNewPosts = 0
    /\ discovered = {}
    /\ buffer = << >>
    /\ addedLocal = {}
    /\ idleCycles = 0
    /\ totalDiscovered = 0
    /\ pulledSet = {}
    /\ pulledTwice = FALSE
    /\ scrolls = 0
    /\ passes = 0
    /\ idleRun = 0
    /\ productive = 0
    /\ seen = {}
    /\ repeated = FALSE
    /\ unprocessed = << >>
    /\ lastCall = NoCall
    /\ raised = FALSE
    /\ engines = {}
    /\ modalsRun = FALSE
    /\ clickThrows = 0
    /\ expandedMsgs = 0

(***************************************************************************)
(* RedditBehavior, src/o17-jisadjisadji.js                                 *)
(***************************************************************************)
\* a faulty membership test: every href counts as new
AlwaysNew17(store, url) == TRUE

\* !this.discoveredUrls.has(url)
IsNew17(store, url) == url \notin store

\* the for loop of _discoverAndQueueUrls over postLinks
RECURSIVE QueueUrls17(_, _, _, _)
QueueUrls17(store, out, n, postLinks) ==
    IF postLinks = << >>
    THEN [discoveredUrls |-> store, sink |-> out, newUrlsFound |-> n]
    ELSE LET url == Head(postLinks)
         IN  IF IsNew17(store, url)
             THEN QueueUrls17(store \cup {url}, Append(out, url), n + 1, Tail(postLinks))
             ELSE QueueUrls17(store, out, n, Tail(postLinks))

\* _discoverAndQueueUrls(ctx) on the anchors the page returns
discoverAndQueueUrls17(store, out, postLinks) == QueueUrls17(store, out, 0, postLinks)

\* this.state.postsFound after a pass that found n
PostsFoundAfter(found, n) == IF n > 0 THEN found + n ELSE found

\* the history of an extraction pass that returned postLinks and admitted n
PassHistory(postLinks, n) ==
    /\ passes' = passes + 1
    /\ idleRun' = IF n > 0 THEN 0 ELSE idleRun + 1
    /\ productive' = IF n > 0 THEN productive + 1 ELSE productive
    /\ seen' = seen \cup SeqToSet(postLinks)
    /\ repeated' = (repeated \/ SeqToSet(postLinks) \cap seen # {}
                        \/ Cardinality(SeqToSet(postLinks)) < Len(postLinks))

\* the history of a loop iteration without extraction that was productive
\* (n > 0) or not
IterHistory(n) ==
    /\ passes' = passes + 1
    /\ idleRun' = IF n > 0 THEN 0 ELSE idleRun + 1
    /\ productive' = IF n > 0 THEN productive + 1 ELSE productive
    /\ UNCHANGED <<seen, repeated>>

\* where run() continues after the readiness wait: a timeout throws past
\* everything in the try block to the catch
AfterWait17(ready) == IF ready THEN "modals" ELSE "done"

\* run(): waitForSelector('#main-content') and the settle wait; a timeout
\* throws into the catch of run()
WaitForSelector17 ==
    /\ variant = "o17" /\ pc = "start"
    /\ \E ready \in BOOLEAN :
        /\ pc' = AfterWait17(ready)
        /\ error' = IF ready THEN "none" ELSE "timeout"
    /\ UNCHANGED <<visitVars, stableVars, hostVars, traceVars, i, sink, listVars17, expandVars, scrollerVars, subVars,
                   pageVars, driverVars, histVars, lastCall, obsVars>>

\* run(): _closeModals() (every click failure is swallowed), then the dispatch
\* on url.includes('/comments/')
CloseModals17 ==
    /\ variant = "o17" /\ pc = "modals"
    /\ modalsRun' = TRUE
    /\ pc' = IF mode = "thread" THEN "post" ELSE "listInit"
    /\ UNCHANGED <<visitVars, stableVars, hostVars, traceVars, error, i, sink, listVars17, expandVars, scrollerVars,
                   subVars, pageVars, driverVars, histVars, lastCall,
                   raised, engines, clickThrows, expandedMsgs>>

\* _handleListingPage: emptyScrolls = 0, the initial _discoverAndQueueUrls,
\* then the first test of i < maxScrolls
ListingInit17 ==
    /\ variant = "o17" /\ pc = "listInit"
    /\ engines' = engines \cup {"listing"}
    /\ \E postLinks \in LinkLists :
        LET r == discoverAndQueueUrls17(discoveredUrls, sink, postLinks)
        IN  /\ discoveredUrls' = r.discoveredUrls
            /\ sink' = r.sink
            /\ postsFound' = PostsFoundAfter(postsFound, r.newUrlsFound)
            /\ PassHistory(postLinks, r.newUrlsFound)
    /\ emptyScrolls' = 0
    /\ i' = 0
    /\ pc' = IF 0 < maxScrolls THEN "scroll" ELSE "done"
    /\ UNCHANGED <<visitVars, stableVars, hostVars, traceVars, error, expandVars, scrollerVars, subVars, pageVars,
                   driverVars, scrolls, unprocessed, lastCall,
                   raised, modalsRun, clickThrows, expandedMsgs>>

\* loop body, first half: window.scrollBy and the settle wait
Scroll17 ==
    /\ variant = "o17" /\ pc = "scroll"
    /\ scrolls' = scrolls + 1
    /\ pc' = "extract"
    /\ UNCHANGED <<visitVars, stableVars, hostVars, traceVars, error, i, sink, listVars17, expandVars, scrollerVars,
                   subVars, pageVars, driverVars, passVars, unprocessed, lastCall, obsVars>>

\* a faulty idle counter: a productive pass does not reset it
EmptyScrollsNoReset(empty, n) == empty + 1

\* a faulty break test: one unproductive pass too many
ReachedEnd17Late(empty) == empty > maxEmptyScrolls

\* a faulty loop test: one iteration too many
MoreScrolls17Late(k) == k <= maxScrolls

\* emptyScrolls after a pass that found n
EmptyScrollsAfter(empty, n) == IF n > 0 THEN 0 ELSE empty + 1

\* emptyScrolls >= this.opts.maxEmptyScrolls
ReachedEnd17(empty) == empty >= maxEmptyScrolls

\* i < this.opts.maxScrolls
MoreScrolls17(k) == k < maxScrolls

\* loop body, second half: _discoverAndQueueUrls, the idle counter, the break,
\* then i++ and the loop test
Extract17 ==
    /\ variant = "o17" /\ pc = "extract"
    /\ \E postLinks \in LinkLists :
        LET r == discoverAndQueueUrls17(discoveredUrls, sink, postLinks)
            empty == EmptyScrollsAfter(emptyScrolls, r.newUrlsFound)
        IN  /\ discoveredUrls' = r.discoveredUrls
            /\ sink' = r.sink
            /\ postsFound' = PostsFoundAfter(postsFound, r.newUrlsFound)
            /\ PassHistory(postLinks, r.newUrlsFound)
            /\ emptyScrolls' = empty
            /\ IF ReachedEnd17(empty)
               THEN i' = i /\ pc' = "done"
               ELSE i' = i + 1 /\ pc' = IF MoreScrolls17(i + 1) THEN "scroll" ELSE "done"
    /\ UNCHANGED <<visitVars, stableVars, hostVars, traceVars, error, expandVars, scrollerVars, subVars, pageVars,
                   driverVars, scrolls, unprocessed, lastCall, obsVars>>

\* _handlePostPage: window.scrollTo and the settle wait, then the first test
\* of i < maxCommentExpansionLoops
PostPage17 ==
    /\ variant = "o17" /\ pc = "post"
    /\ engines' = engines \cup {"expansion"}
    /\ scrolls' = scrolls + 1
    /\ i' = 0
    /\ pc' = IF 0 < maxCommentExpansionLoops THEN "expand" ELSE "done"
    /\ UNCHANGED <<visitVars, stableVars, hostVars, traceVars, error, sink, listVars17, expandVars, scrollerVars,
                   subVars, pageVars, driverVars, passVars, unprocessed, lastCall,
                   raised, modalsRun, clickThrows, expandedMsgs>>

\* the elements one iteration finds over all its selectors (n) and how many of
\* their clicks return without throwing (k)
Clicks == {<<n, k>> \in (0..MaxElems) \X (0..MaxElems) : k <= n}

\* one iteration of _expandCommentThreads: every element is tried, a throwing
\* click is swallowed; no click ends the loop
Expand17 ==
    /\ variant = "o17" /\ pc = "expand"
    /\ \E c \in Clicks :
        /\ attempted' = c[1]
        /\ clickThrows' = clickThrows + (c[1] - c[2])
        /\ expandedMsgs' = IF c[2] > 0 THEN expandedMsgs + 1 ELSE expandedMsgs
        /\ IterHistory(c[2])
        /\ clickedCount' = c[2]
        /\ IF c[2] > 0
           THEN /\ commentsExpanded' = commentsExpanded + c[2]
                /\ i' = i + 1
                /\ pc' = IF i + 1 < maxCommentExpansionLoops THEN "expand" ELSE "done"
           ELSE /\ commentsExpanded' = commentsExpanded
                /\ i' = i
                /\ pc' = "done"
    /\ UNCHANGED <<visitVars, stableVars, hostVars, traceVars, error, sink, listVars17, consecutiveFailures,
                   scrollerVars, subVars, pageVars, driverVars, scrolls, unprocessed,
                   lastCall, raised, engines, modalsRun>>

\* a faulty readiness wait: its timeout is swallowed and the visit goes on
AfterWaitSwallowed(ready) == "modals"

\* a faulty pipeline: the engine is dispatched right after the readiness wait
AfterWaitNoModals(ready) == IF ready THEN "scroll" ELSE "done"

\* where run() continues after the readiness wait: a timeout throws past
\* everything in the try block to the catch
AfterWait18(ready) == IF ready THEN "modals" ELSE "done"

(***************************************************************************)
(* Two RedditBehavior instances of src/o17-jisadjisadji.js, interleaved    *)
(***************************************************************************)
\* the anchors the two pages show
PairHrefs == {PostHref(1), PostHref(2)}

PairLists == SeqsUpTo(PairHrefs, MaxLinks)

\* a faulty construction: both instances hold the same Set
StoreOfShared(k) == 1

\* constructor: this.discoveredUrls = new Set(), one Set for each instance
StoreOf(k) == k

\* _handleListingPage of one instance, resumed at its suspension point v.pc
\* with the anchors postLinks on its page, on the Set store
ListingStep17(v, store, postLinks) ==
    CASE v.pc = "listInit" ->
            LET r == discoverAndQueueUrls17(store, v.sink, postLinks)
            IN  [v |-> [pc |-> IF MoreScrolls17(0) THEN "scroll" ELSE "done",
                        i |-> 0, emptyScrolls |-> 0, sink |-> r.sink],
                 store |-> r.discoveredUrls]
      [] v.pc = "scroll" -> [v |-> [v EXCEPT !.pc = "extract"], store |-> store]
      [] v.pc = "extract" ->
            LET r == discoverAndQueueUrls17(store, v.sink, postLinks)
                empty == EmptyScrollsAfter(v.emptyScrolls, r.newUrlsFound)
            IN  [v |-> IF ReachedEnd17(empty)
                       THEN [pc |-> "done", i |-> v.i, emptyScrolls |-> empty,
                             sink |-> r.sink]
                       ELSE [pc |-> IF MoreScrolls17(v.i + 1) THEN "scroll" ELSE "done",
                             i |-> v.i + 1, emptyScrolls |-> empty, sink |-> r.sink],
                 store |-> r.discoveredUrls]
      [] OTHER -> [v |-> v, store |-> store]

\* one of the two instances resumes from an await: the initial extraction, a
\* scroll, or an extraction with the idle counter and the loop tests. alone
\* follows the same visit on a Set no other visit touches
PairStep17 ==
    /\ variant = "pair17"
    /\ \E k \in Instances :
        /\ inst[k].pc # "done"
        /\ \E postLinks \in (IF inst[k].pc = "scroll" THEN {<< >>} ELSE PairLists) :
            LET a == ListingStep17(inst[k], stores[StoreOf(k)], postLinks)
                s == ListingStep17(alone[k].v, alone[k].store, postLinks)
            IN  /\ inst' = [inst EXCEPT ![k] = a.v]
                /\ stores' = [stores EXCEPT ![StoreOf(k)] = a.store]
                /\ alone' = [alone EXCEPT ![k] = s]
    /\ UNCHANGED <<visitVars, stableVars, reuseVars, traceVars, pc, error, i, sink, listVars17,
                   expandVars, scrollerVars, subVars, pageVars, driverVars, histVars,
                   lastCall, obsVars>>

(***************************************************************************)
(* RedditBehavior, src/o18-9isadnjnsdasad.js                               *)
(***************************************************************************)
\* run(): waitForSelector('#main-content') and the settle wait
WaitForSelector18 ==
    /\ variant = "o18" /\ pc = "start"
    /\ \E ready \in BOOLEAN :
        /\ pc' = AfterWait18(ready)
        /\ error' = IF ready THEN "none" ELSE "timeout"
    /\ UNCHANGED <<visitVars, stableVars, hostVars, traceVars, i, sink, listVars17, expandVars, scrollerVars, subVars,
                   pageVars, driverVars, histVars, lastCall, obsVars>>

\* the outcomes of the clicks of one _closeModals: one per candidate element,
\* in the order of the selectors
ModalResults == SeqsUpTo(BOOLEAN, MaxModals)

\* a faulty dismissal: the first throwing click ends the attempts
RECURSIVE CloseUntilThrow18(_, _)
CloseUntilThrow18(n, results) ==
    IF results = << >> THEN n
    ELSE IF Head(results) THEN CloseUntilThrow18(n + 1, Tail(results))
    ELSE n + 1

CloseAllAborting18(results) == CloseUntilThrow18(0, results)

\* for (const element of elements) { try { await element.click(); await
\* this.page.waitForTimeout(500); } catch (e) {} } over the elements of every
\* selector: the number of click attempts
RECURSIVE CloseEach18(_, _)
CloseEach18(n, results) ==
    IF results = << >> THEN n
    ELSE IF Head(results) THEN CloseEach18(n + 1, Tail(results))
    ELSE CloseEach18(n + 1, Tail(results))

\* the two nested for loops of _closeModals
CloseAll18(results) == CloseEach18(0, results)

\* a faulty dispatch: every page is handled as a listing
Dispatch18AlwaysListing(m) == "scroll"

\* if (url.includes('/comments/')) _handlePostPage else _handleListingPage
Dispatch18(m) == IF m = "thread" THEN "post" ELSE "scroll"

\* run(): _closeModals(), then the dispatch on url.includes('/comments/')
CloseModals18 ==
    /\ variant = "o18" /\ pc = "modals"
    /\ modalsRun' = TRUE
    /\ modalPasses' = modalPasses + 1
    /\ \E results \in ModalResults :
        /\ modalResults' = results
        /\ modalAttempts' = CloseAll18(results)
    /\ pc' = Dispatch18(mode)
    /\ UNCHANGED <<visitVars, stableVars, hostVars, clickedEl, clickResults, metAnchors, error, i, sink, listVars17, expandVars, scrollerVars,
                   subVars, pageVars, driverVars, histVars, lastCall,
                   raised, engines, clickThrows, expandedMsgs>>

\* _handleListingPage: the timed scroll is started in the page, then the wait
ListingScroll18 ==
    /\ variant = "o18" /\ pc = "scroll"
    /\ engines' = engines \cup {"listing"}
    /\ scrolls' = scrolls + 1
    /\ pc' = "extract"
    /\ UNCHANGED <<visitVars, stableVars, hostVars, traceVars, error, i, sink, listVars17, expandVars, scrollerVars,
                   subVars, pageVars, driverVars, passVars, unprocessed, lastCall,
                   raised, modalsRun, clickThrows, expandedMsgs>>

\* the for loop of _discoverAndQueueUrls over postLinks; new URL(url, base)
\* is not guarded, so the loop ends at the first href it cannot parse
RECURSIVE QueueUrls18(_, _, _, _)
QueueUrls18(store, out, n, postLinks) ==
    IF postLinks = << >>
    THEN [discoveredUrls |-> store, sink |-> out, newUrlsFound |-> n,
          threw |-> FALSE, rest |-> << >>]
    ELSE LET absoluteUrl == ParseUrl(Head(postLinks), LocationHost)
         IN  IF absoluteUrl = ParseThrows
             THEN [discoveredUrls |-> store, sink |-> out, newUrlsFound |-> n,
                   threw |-> TRUE, rest |-> Tail(postLinks)]
             ELSE IF absoluteUrl \notin store
             THEN QueueUrls18(store \cup {absoluteUrl}, Append(out, absoluteUrl), n + 1,
                              Tail(postLinks))
             ELSE QueueUrls18(store, out, n, Tail(postLinks))

discoverAndQueueUrls18(store, out, postLinks) == QueueUrls18(store, out, 0, postLinks)

\* _handleListingPage: the one _discoverAndQueueUrls of the visit; a throw
\* leaves the generator and is caught by run()
Discover18 ==
    /\ variant = "o18" /\ pc = "extract"
    /\ \E postLinks \in LinkLists18 :
        LET r == discoverAndQueueUrls18(discoveredUrls, sink, postLinks)
        IN  /\ discoveredUrls' = r.discoveredUrls
            /\ sink' = r.sink
            /\ PassHistory(postLinks, r.newUrlsFound)
            /\ error' = IF r.threw THEN "url" ELSE "none"
            /\ unprocessed' = r.rest
    /\ pc' = "done"
    /\ UNCHANGED <<visitVars, stableVars, hostVars, traceVars, i, postsFound, emptyScrolls, expandVars, scrollerVars,
                   subVars, pageVars, driverVars, scrolls, lastCall, obsVars>>

\* _handlePostPage: window.scrollTo and the wait, then consecutiveFailures = 0
\* and the first test of i < MAX_COMMENT_EXPANSION_LOOPS
PostPage18 ==
    /\ variant = "o18" /\ pc = "post"
    /\ engines' = engines \cup {"expansion"}
    /\ scrolls' = scrolls + 1
    /\ i' = 0
    /\ consecutiveFailures' = 0
    /\ pc' = IF 0 < MAX_COMMENT_EXPANSION_LOOPS THEN "expand" ELSE "done"
    /\ UNCHANGED <<visitVars, stableVars, hostVars, traceVars, error, sink, listVars17, clickedCount, attempted,
                   commentsExpanded, scrollerVars, subVars, pageVars, driverVars,
                   passVars, unprocessed, lastCall,
                   raised, modalsRun, clickThrows, expandedMsgs>>

\* a faulty loop test: one iteration too many
MoreLoops18Late(k) == k <= MAX_COMMENT_EXPANSION_LOOPS

\* consecutiveFailures after an iteration that clicked k controls
FailuresAfter18(failures, k) == IF k > 0 THEN 0 ELSE failures + 1

\* a faulty break test: one failed iteration too many
GiveUp18Late(failures) == failures > maxConsecutiveFailures18

\* consecutiveFailures >= maxConsecutiveFailures
GiveUp18(failures) == failures >= maxConsecutiveFailures18

\* i < this.MAX_COMMENT_EXPANSION_LOOPS
MoreLoops18(k) == k < MAX_COMMENT_EXPANSION_LOOPS

\* a faulty click: the exception of a failing click is not caught
ClickEscapes18NoCatch(n, k) == k < n

\* try { await element.click(); ... } catch (e) {}: of n click attempts of
\* which k return, none lets its exception leave the loop
ClickEscapes18(n, k) == FALSE

\* 'Expanded ...' messages after an iteration that clicked k controls
ExpandedMsgsAfter18(msgs, k) == IF k > 0 THEN msgs + 1 ELSE msgs

\* what the elements of one iteration do when clicked, over all selectors in
\* order: TRUE when element.click() returns, FALSE when it throws
ClickResults == SeqsUpTo(BOOLEAN, MaxElems)

\* a faulty loop: the first throwing click ends the attempts of the iteration
RECURSIVE ClickUntilThrow(_, _, _)
ClickUntilThrow(n, k, results) ==
    IF results = << >> THEN [attempted |-> n, clickedCount |-> k]
    ELSE IF Head(results) THEN ClickUntilThrow(n + 1, k + 1, Tail(results))
    ELSE [attempted |-> n + 1, clickedCount |-> k]

ClickAllAborting(results) == ClickUntilThrow(0, 0, results)

\* for (const element of elements) { try { await element.click();
\* clickedCount++; ... } catch (e) {} } over the elements of every selector
RECURSIVE ClickEach18(_, _, _)
ClickEach18(n, k, results) ==
    IF results = << >> THEN [attempted |-> n, clickedCount |-> k]
    ELSE IF Head(results) THEN ClickEach18(n + 1, k + 1, Tail(results))
    ELSE ClickEach18(n + 1, k, Tail(results))

\* the two nested for loops of one iteration, from clickedCount = 0
ClickAll18(results) == ClickEach18(0, 0, results)

\* one iteration of _expandCommentThreads: every matched element is clicked,
\* a throwing click is swallowed
Expand18 ==
    /\ variant = "o18" /\ pc = "expand"
    /\ \E results \in ClickResults :
        LET c == ClickAll18(results)
            failures == FailuresAfter18(consecutiveFailures, c.clickedCount)
        IN  /\ attempted' = c.attempted
            /\ clickResults' = results
            /\ clickThrows' = clickThrows + (c.attempted - c.clickedCount)
            /\ IF ClickEscapes18(c.attempted, c.clickedCount)
               THEN /\ error' = "click" /\ pc' = "done"
                    /\ UNCHANGED <<i, clickedCount, consecutiveFailures, expandedMsgs,
                                   passVars>>
               ELSE /\ error' = error
                    /\ IterHistory(c.clickedCount)
                    /\ clickedCount' = c.clickedCount
                    /\ expandedMsgs' = ExpandedMsgsAfter18(expandedMsgs, c.clickedCount)
                    /\ consecutiveFailures' = failures
                    /\ IF c.clickedCount = 0 /\ GiveUp18(failures)
                       THEN i' = i /\ pc' = "done"
                       ELSE /\ i' = i + 1
                            /\ pc' = IF MoreLoops18(i + 1) THEN "expand" ELSE "done"
    /\ UNCHANGED <<visitVars, stableVars, hostVars, clickedEl, metAnchors, modalVars, sink, listVars17, commentsExpanded,
                   scrollerVars, subVars, pageVars, driverVars, scrolls, unprocessed,
                   lastCall, raised, engines, modalsRun>>

\* a page call of the visit (page.$$, $$eval, evaluate, waitForTimeout) throws:
\* the exception reaches the catch of run(), which logs it
Fail18 ==
    /\ variant = "o18" /\ pc \in {"modals", "scroll", "extract", "post", "expand"}
    /\ error' = "page"
    /\ pc' = "done"
    /\ UNCHANGED <<visitVars, stableVars, hostVars, traceVars, i, sink, listVars17, expandVars, scrollerVars, subVars,
                   pageVars, driverVars, histVars, lastCall, obsVars>>

(***************************************************************************)
(* RedditScrollerBehavior, src/05-waadwaw.js                               *)
(***************************************************************************)
\* run(): ctx.waitForElement('shreddit-app', 20000) and the wait
WaitForElement05 ==
    /\ variant = "scroller" /\ pc = "start"
    /\ \E ready \in BOOLEAN :
        IF ready THEN pc' = "modals" /\ error' = "none"
                 ELSE pc' = "done" /\ error' = "timeout"
    /\ UNCHANGED <<visitVars, stableVars, hostVars, traceVars, i, sink, listVars17, expandVars, scrollerVars, subVars,
                   pageVars, driverVars, histVars, lastCall, obsVars>>

\* run(): #closeModals, new URL(ctx.url) (throws on a malformed URL), the two
\* regular-expression tests, and the entry of the engine chosen: its locals
\* and the first test of its for loop
CloseModals05 ==
    /\ variant = "scroller" /\ pc = "modals"
    /\ i' = 0
    /\ consecutiveFailures' = 0
    /\ consecutiveScrollsWithNoNewPosts' = 0
    /\ modalsRun' = TRUE
    /\ LET branch == classify(ctxUrl) IN
        /\ error' = IF branch = "unknown" THEN "url" ELSE "none"
        /\ engines' = CASE branch = "thread" -> engines \cup {"expansion"}
                         [] branch = "wiki" -> engines \cup {"wiki"}
                         [] branch = "listing" -> engines \cup {"listing"}
                         [] OTHER -> engines
        /\ pc' = CASE branch = "unknown" -> "done"
                   [] branch = "thread" ->
                        IF 0 < MAX_COMMENT_EXPANDS THEN "expand" ELSE "finalScroll"
                   [] branch = "wiki" -> "wiki"
                   [] OTHER -> IF 0 < MAX_SCROLLS THEN "count" ELSE "finalCount"
    /\ UNCHANGED <<visitVars, stableVars, hostVars, traceVars, sink, listVars17, clickedCount, attempted,
                   commentsExpanded, initialPostCount, subVars, pageVars, driverVars,
                   histVars, lastCall, raised, clickThrows, expandedMsgs>>

\* #handleWikiPage: one ctx.scroll
WikiPage05 ==
    /\ variant = "scroller" /\ pc = "wiki"
    /\ scrolls' = scrolls + 1
    /\ pc' = "done"
    /\ UNCHANGED <<visitVars, stableVars, hostVars, traceVars, error, i, sink, listVars17, expandVars, scrollerVars,
                   subVars, pageVars, driverVars, passVars, unprocessed, lastCall, obsVars>>

\* #handleListingPage, loop body: initialPostCount is read from the page
ListCount05 ==
    /\ variant = "scroller" /\ pc = "count"
    /\ initialPostCount' \in 0..MaxPostCount
    /\ pc' = "scroll"
    /\ UNCHANGED <<visitVars, stableVars, hostVars, traceVars, error, i, sink, listVars17, expandVars,
                   consecutiveScrollsWithNoNewPosts, subVars, pageVars, driverVars,
                   histVars, lastCall, obsVars>>

\* #handleListingPage, loop body: ctx.scroll and the long wait
ListScroll05 ==
    /\ variant = "scroller" /\ pc = "scroll"
    /\ scrolls' = scrolls + 1
    /\ pc' = "check"
    /\ UNCHANGED <<visitVars, stableVars, hostVars, traceVars, error, i, sink, listVars17, expandVars, scrollerVars,
                   subVars, pageVars, driverVars, passVars, unprocessed, lastCall, obsVars>>

\* i < RedditScrollerBehavior.MAX_SCROLLS
MoreScrolls05(k) == k < MAX_SCROLLS

\* #handleListingPage, loop body: newPostCount is read and compared, then i++
\* and the loop test
ListCheck05 ==
    /\ variant = "scroller" /\ pc = "check"
    /\ \E newPostCount \in 0..MaxPostCount :
        IF i > 0 /\ newPostCount = initialPostCount
        THEN /\ IterHistory(0)
             /\ consecutiveScrollsWithNoNewPosts' = consecutiveScrollsWithNoNewPosts + 1
             /\ IF consecutiveScrollsWithNoNewPosts + 1 >= maxConsecutiveFailuresListing
                THEN i' = i /\ pc' = "finalCount"
                ELSE i' = i + 1 /\ pc' = IF MoreScrolls05(i + 1) THEN "count" ELSE "finalCount"
        ELSE /\ IterHistory(1)
             /\ consecutiveScrollsWithNoNewPosts' = 0
             /\ i' = i + 1
             /\ pc' = IF MoreScrolls05(i + 1) THEN "count" ELSE "finalCount"
    /\ UNCHANGED <<visitVars, stableVars, hostVars, traceVars, error, sink, listVars17, expandVars, initialPostCount,
                   subVars, pageVars, driverVars, scrolls, unprocessed, lastCall, obsVars>>

\* #handleListingPage: finalPostCount is read, the behaviour finishes
FinalCount05 ==
    /\ variant = "scroller" /\ pc = "finalCount"
    /\ pc' = "done"
    /\ UNCHANGED <<visitVars, stableVars, hostVars, traceVars, error, i, sink, listVars17, expandVars, scrollerVars,
                   subVars, pageVars, driverVars, histVars, lastCall, obsVars>>

\* i < RedditScrollerBehavior.MAX_COMMENT_EXPANDS
MoreExpands05(k) == k < MAX_COMMENT_EXPANDS

\* one iteration of #expandComments: the two #clickAllVisible calls return k1
\* and k2 (clickedCount is left holding k2), the failure counter, the break,
\* the short wait, i++ and the loop test
Expand05 ==
    /\ variant = "scroller" /\ pc = "expand"
    /\ \E k1 \in 0..MaxElems, k2 \in 0..MaxElems :
        LET clickedSomething == k1 > 0 \/ k2 > 0
        IN  /\ clickedCount' = k2
            /\ IterHistory(IF clickedSomething THEN 1 ELSE 0)
            /\ attempted' = attempted
            /\ IF clickedSomething
               THEN /\ consecutiveFailures' = 0
                    /\ i' = i + 1
                    /\ pc' = IF MoreExpands05(i + 1) THEN "expand" ELSE "finalScroll"
               ELSE /\ consecutiveFailures' = consecutiveFailures + 1
                    /\ IF consecutiveFailures + 1 >= maxConsecutiveFailuresExpand
                       THEN i' = i /\ pc' = "finalScroll"
                       ELSE /\ i' = i + 1
                            /\ pc' = IF MoreExpands05(i + 1) THEN "expand" ELSE "finalScroll"
    /\ UNCHANGED <<visitVars, stableVars, hostVars, traceVars, error, sink, listVars17, commentsExpanded, scrollerVars,
                   subVars, pageVars, driverVars, scrolls, unprocessed, lastCall, obsVars>>

\* #expandComments: the final ctx.scroll
FinalScroll05 ==
    /\ variant = "scroller" /\ pc = "finalScroll"
    /\ scrolls' = scrolls + 1
    /\ pc' = "done"
    /\ UNCHANGED <<visitVars, stableVars, hostVars, traceVars, error, i, sink, listVars17, expandVars, scrollerVars,
                   subVars, pageVars, driverVars, passVars, unprocessed, lastCall, obsVars>>

(***************************************************************************)
(* RedditBehavior.handleSubredditPage, src/05-waadwaw.js                   *)
(***************************************************************************)
\* url.pathname.split('/').filter(p => p)
pathParts(u) == SelectSeq(u.segs, LAMBDA p : p # "")

\* the subreddit of the visit's URL: pathParts[1]
currentSubreddit == pathParts(ctxUrl)[2]

\* the href of a title link: whether new URL(href) accepts it, its host, the
\* segments of its pathname and whether the pathname ends in a slash
TitleHref(host, segs, slash) == [ok |-> TRUE, host |-> host, segs |-> segs, slash |-> slash]

\* an href on which new URL(href) throws
BadHref == [ok |-> FALSE, host |-> "", segs |-> << >>, slash |-> FALSE]

\* a[slot="title"] hrefs: posts of two subreddits, a subreddit's front page, a
\* user's post, and two links to another site
TitleHrefs ==
    {TitleHref(LocationHost, <<"r", "foo", "comments", "1", "t">>, TRUE),
     TitleHref(LocationHost, <<"r", "foo", "comments", "2", "t">>, TRUE),
     TitleHref(LocationHost, <<"r", "bar", "comments", "1", "t">>, TRUE),
     TitleHref(LocationHost, <<"r", "foo">>, TRUE),
     TitleHref(LocationHost, <<"user", "bar", "comments", "1">>, TRUE),
     TitleHref("example.com", <<"r", "foo", "comments", "1", "t">>, TRUE),
     TitleHref("example.com", <<"news">>, FALSE),
     BadHref}

TitleLists == SeqsUpTo(TitleHrefs, MaxLinks)

\* linkUrl.pathname.startsWith(`/r/${currentSubreddit}/comments/`)
PathInSubreddit(linkUrl, sub) ==
    /\ Len(linkUrl.segs) >= 3
    /\ linkUrl.segs[1] = "r"
    /\ linkUrl.segs[2] = sub
    /\ linkUrl.segs[3] = "comments"
    /\ (Len(linkUrl.segs) > 3 \/ linkUrl.slash)

\* the test of the for loop over postLinks; an href that new URL rejects is
\* skipped by the catch
InCurrentSubreddit(href) == href.ok /\ PathInSubreddit(href, currentSubreddit)

\* pathParts.length < 2 || pathParts[0] !== 'r'
NotSubredditPage(u) == Len(pathParts(u)) < 2 \/ pathParts(u)[1] # "r"

\* this.page.url().includes("/comments/")
IncludesComments(u) ==
    u.ok /\ \E k \in 1..Len(u.segs) : u.segs[k] = "comments" /\ (k < Len(u.segs) \/ u.slash)

\* i < MAX_EXPANSIONS
MoreExpansions05(k) == k < MAX_EXPANSIONS

\* run(): the test of "/comments/"; then the head of handlePostPage (first
\* test of its for loop) or of handleSubredditPage (the path test, the
\* locals, the first test of the while loop)
Run05 ==
    /\ variant = "sub05" /\ pc = "start"
    /\ i' = 0
    /\ discoveredPostUrls' = {}
    /\ scrollsWithoutNewPosts' = 0
    /\ IF IncludesComments(ctxUrl)
       THEN /\ engines' = engines \cup {"expansion"}
            /\ pc' = IF MoreExpansions05(0) THEN "postScroll" ELSE "done"
       ELSE /\ engines' = engines \cup {"listing"}
            /\ pc' = IF NotSubredditPage(ctxUrl) THEN "done"
                     ELSE IF 0 < MAX_SCROLLS_WITHOUT_NEW_POSTS THEN "extract" ELSE "done"
    /\ UNCHANGED <<visitVars, stableVars, hostVars, traceVars, error, sink, listVars17, expandVars,
                   scrollerVars, pageVars, driverVars, histVars, lastCall,
                   raised, modalsRun, clickThrows, expandedMsgs>>

\* handlePostPage, loop body: utils.scroll and the wait
PostScroll05 ==
    /\ variant = "sub05" /\ pc = "postScroll"
    /\ scrolls' = scrolls + 1
    /\ pc' = "find"
    /\ UNCHANGED <<visitVars, stableVars, hostVars, traceVars, error, i, sink, listVars17, expandVars,
                   scrollerVars, subVars, pageVars, driverVars, passVars, unprocessed,
                   lastCall, obsVars>>

\* whether the iteration reaches i++: without a button the else branch
\* breaks, and the catch of a throwing click breaks too
NextExpansion05(found, clickReturns) == found /\ clickReturns

\* handlePostPage, loop body: findLoadMoreButton, the click in its try, then
\* i++ and the loop test; attempted and clickedCount are those of this
\* iteration
PostClick05 ==
    /\ variant = "sub05" /\ pc = "find"
    /\ \E found \in BOOLEAN, clickReturns \in BOOLEAN :
        /\ attempted' = IF found THEN 1 ELSE 0
        /\ clickedCount' = IF found /\ clickReturns THEN 1 ELSE 0
        /\ clickThrows' = IF found /\ ~clickReturns THEN clickThrows + 1 ELSE clickThrows
        /\ commentsExpanded' =
                IF found /\ clickReturns THEN commentsExpanded + 1 ELSE commentsExpanded
        /\ IterHistory(IF found /\ clickReturns THEN 1 ELSE 0)
        /\ IF NextExpansion05(found, clickReturns)
           THEN i' = i + 1 /\ pc' = IF MoreExpansions05(i + 1) THEN "postScroll" ELSE "done"
           ELSE i' = i /\ pc' = "done"
    /\ UNCHANGED <<visitVars, stableVars, hostVars, traceVars, error, sink, listVars17,
                   consecutiveFailures, scrollerVars, subVars, pageVars, driverVars,
                   scrolls, unprocessed, lastCall, raised, engines, modalsRun,
                   expandedMsgs>>

\* loop body: the title links are read and filtered, the idle counter updated
SubExtract05 ==
    /\ variant = "sub05" /\ pc = "extract"
    /\ \E postLinks \in TitleLists :
        LET found == discoveredPostUrls
                        \cup {h \in SeqToSet(postLinks) : InCurrentSubreddit(h)}
            grew == Cardinality(found) > Cardinality(discoveredPostUrls)
        IN  /\ discoveredPostUrls' = found
            /\ scrollsWithoutNewPosts' = IF grew THEN 0 ELSE scrollsWithoutNewPosts + 1
            /\ IterHistory(IF grew THEN 1 ELSE 0)
    /\ pc' = "scroll"
    /\ UNCHANGED <<visitVars, stableVars, hostVars, traceVars, error, i, sink, listVars17, expandVars, scrollerVars,
                   pageVars, driverVars, scrolls, unprocessed, lastCall, obsVars>>

\* loop body: utils.scroll and the wait, then the test of the while loop
SubScroll05 ==
    /\ variant = "sub05" /\ pc = "scroll"
    /\ scrolls' = scrolls + 1
    /\ pc' = IF scrollsWithoutNewPosts < MAX_SCROLLS_WITHOUT_NEW_POSTS
             THEN "extract" ELSE "done"
    /\ UNCHANGED <<visitVars, stableVars, hostVars, traceVars, error, i, sink, listVars17, expandVars, scrollerVars,
                   subVars, pageVars, driverVars, passVars, unprocessed, lastCall, obsVars>>

\* a page call of a handler outside its try (page.$$, utils.scroll,
\* utils.wait) throws: run() has no try, the exception reaches the host
Fail05 ==
    /\ variant = "sub05" /\ pc \in {"extract", "scroll", "postScroll", "find"}
    /\ raised' = TRUE
    /\ pc' = "done"
    /\ UNCHANGED <<visitVars, stableVars, hostVars, traceVars, error, i, sink, listVars17, expandVars, scrollerVars,
                   subVars, pageVars, driverVars, histVars, lastCall, engines,
                   modalsRun, clickThrows, expandedMsgs>>

(***************************************************************************)
(* RedditInfiniteScrollBrowsertrix, src/01-sadi9sdai0jsai0di0sda.js        *)
(***************************************************************************)
\* pushIfNew on each raw URL of a scan, in order
RECURSIVE PushAll(_, _)
PushAll(st, raws) ==
    IF raws = << >> THEN st
    ELSE PushAll(pushIfNew([discovered |-> st.discovered, buffer |-> st.buffer],
                           Head(raws)),
                 Tail(raws))

\* run(): the page-side object is installed and the initial pass pushes the
\* the behaviours that run the driver of 01: one visit of a page, and a page
\* the host runs the behaviour on again without reloading it
Archive01 == {"archive", "reuse01"}

\* the anchors of the reused page
ScanUrlsReuse ==
    {PostHref(1), Url(LocationHost, "foo", 1, << <<"utm_source", "a">> >>, "")}

ScanOf(v) == IF v = "reuse01" THEN ScanUrlsReuse ELSE ScanUrls

\* a faulty install: the script installs a new store on every run
InstallGuardOff(flag) == FALSE

\* if (window.__redditArchive && window.__redditArchive._installed) return
InstallGuard(flag) == flag

\* anchors already on the page; the driver's locals are declared. On a page
\* that holds an installed window.__redditArchive the script returns at once
Install01 ==
    /\ variant \in Archive01 /\ pc = "start"
    /\ engines' = engines \cup {"listing"}
    /\ IF InstallGuard(installed)
       THEN UNCHANGED <<discovered, buffer>>
       ELSE \E raws \in SeqsUpTo(ScanOf(variant), MaxLinks) :
                LET st == PushAll([discovered |-> {}, buffer |-> << >>], raws)
                IN  discovered' = st.discovered /\ buffer' = st.buffer
    /\ installed' = TRUE
    /\ idleCycles' = 0
    /\ totalDiscovered' = 0
    /\ addedLocal' = {}
    /\ UNCHANGED pullVars
    /\ pc' = IF idleCycles' < MAX_IDLE_CYCLES THEN "pull1" ELSE "flush"
    /\ UNCHANGED <<visitVars, stableVars, runs, pairVars, traceVars, error, i, sink, listVars17, expandVars, scrollerVars,
                   subVars, histVars, lastCall, raised, modalsRun, clickThrows, expandedMsgs>>

\* a MutationObserver or periodic-scan callback reaches an anchor while the
\* driver is suspended: tryPushFromNode calls pushIfNew
PagePush01 ==
    /\ variant \in Archive01 /\ pc \in {"pull1", "scroll", "pull2", "flush"}
    /\ \E raw \in ScanOf(variant) :
        LET st == pushIfNew([discovered |-> discovered, buffer |-> buffer], raw)
        IN  discovered' = st.discovered /\ buffer' = st.buffer
    /\ UNCHANGED <<visitVars, stableVars, hostVars, traceVars, pc, error, i, sink, listVars17, expandVars,
                   scrollerVars, subVars, driverVars, histVars, lastCall, obsVars>>

Min(a, b) == IF a < b THEN a ELSE b

\* the history of a pull: when its page.evaluate returned, what splice(0)
\* handed over is added to what the pulls have returned
PullHistory(ok) ==
    IF ok
    THEN /\ pulledSet' = pulledSet \cup SeqToSet(buffer)
         /\ pulledTwice' = (pulledTwice \/ SeqToSet(buffer) \cap pulledSet # {}
                                \/ Cardinality(SeqToSet(buffer)) < Len(buffer))
    ELSE UNCHANGED pullVars

\* addedLocal.has(url)
AlreadyAdded(added, url) == url \in added

\* the URLs for which this.context.outlinks.add throws during one pull (in
\* 09.js addOutlink swallows the exception and returns false)
RejectSets == {{}, {PostHref(2)}}

\* a faulty counter: a URL whose add threw is counted as added
CountedOnThrow(n) == n + 1

\* addedCount after an outlinks.add that threw: the catch only warns
CountAfterThrow(n) == n

\* the for loop of pullAndAddBatch over slice; an outlinks.add that throws
\* skips addedLocal.add and the counters
RECURSIVE AddBatch(_, _, _, _, _)
AddBatch(added, out, n, slice, rejects) ==
    IF slice = << >> THEN [addedLocal |-> added, sink |-> out, addedCount |-> n]
    ELSE LET url == Head(slice)
         IN  IF AlreadyAdded(added, url)
             THEN AddBatch(added, out, n, Tail(slice), rejects)
             ELSE IF url \in rejects
             THEN AddBatch(added, out, CountAfterThrow(n), Tail(slice), rejects)
             ELSE AddBatch(added \cup {url}, Append(out, url), n + 1, Tail(slice),
                           rejects)

\* newUrls.slice(0, MAX_BATCH_SIZE)
BatchSlice(newUrls) == SubSeq(newUrls, 1, Min(Len(newUrls), MAX_BATCH_SIZE))

\* pullAndAddBatch(): buffer.splice(0) empties the page's buffer, the slice is
\* added to outlinks; a throwing page.evaluate (ok = FALSE) returns 0
pullAndAddBatch(buf, added, out, ok, rejects) ==
    IF ~ok THEN [buffer |-> buf, addedLocal |-> added, sink |-> out, addedCount |-> 0]
    ELSE LET r == AddBatch(added, out, 0, BatchSlice(buf), rejects)
         IN  [buffer |-> << >>, addedLocal |-> r.addedLocal, sink |-> r.sink,
              addedCount |-> r.addedCount]

\* a faulty loop test: one idle cycle too many
KeepDrivingLate(idle) == idle <= MAX_IDLE_CYCLES

\* idleCycles < MAX_IDLE_CYCLES (NEVER_STOP is false)
KeepDriving(idle) == idle < MAX_IDLE_CYCLES

\* driver loop, step 1: pull, then idleCycles is reset or incremented
Pull1_01 ==
    /\ variant \in Archive01 /\ pc = "pull1"
    /\ \E ok \in BOOLEAN, rejects \in RejectSets :
        LET r == pullAndAddBatch(buffer, addedLocal, sink, ok, rejects)
        IN  /\ buffer' = r.buffer
            /\ addedLocal' = r.addedLocal
            /\ PullHistory(ok)
            /\ sink' = r.sink
            /\ totalDiscovered' = totalDiscovered + r.addedCount
            /\ idleCycles' = IF r.addedCount > 0 THEN 0 ELSE idleCycles + 1
    /\ pc' = "scroll"
    /\ UNCHANGED <<visitVars, stableVars, hostVars, traceVars, error, i, listVars17, expandVars, scrollerVars, subVars,
                   discovered, histVars, lastCall, obsVars>>

\* driver loop, steps 2 and 3: utils.scroll (a failure falls back to
\* window.scrollTo, whose failure is swallowed) and the wait
ScrollWait01 ==
    /\ variant \in Archive01 /\ pc = "scroll"
    /\ scrolls' = scrolls + 1
    /\ pc' = "pull2"
    /\ UNCHANGED <<visitVars, stableVars, hostVars, traceVars, error, i, sink, listVars17, expandVars, scrollerVars,
                   subVars, pageVars, driverVars, passVars, unprocessed, lastCall, obsVars>>

\* driver loop, step 4: pull after the wait, then the test of the while loop
Pull2_01 ==
    /\ variant \in Archive01 /\ pc = "pull2"
    /\ \E ok \in BOOLEAN, rejects \in RejectSets :
        LET r == pullAndAddBatch(buffer, addedLocal, sink, ok, rejects)
            idle == IF r.addedCount > 0 THEN 0 ELSE idleCycles
        IN  /\ buffer' = r.buffer
            /\ addedLocal' = r.addedLocal
            /\ PullHistory(ok)
            /\ sink' = r.sink
            /\ totalDiscovered' = totalDiscovered + r.addedCount
            /\ idleCycles' = idle
            /\ passes' = passes + 1
            /\ idleRun' = IF idle = 0 THEN 0 ELSE idleRun + 1
            /\ productive' = IF idle = 0 THEN productive + 1 ELSE productive
            /\ pc' = IF KeepDriving(idle) THEN "pull1" ELSE "flush"
    /\ UNCHANGED <<visitVars, stableVars, hostVars, traceVars, error, i, listVars17, expandVars, scrollerVars, subVars,
                   discovered, scrolls, seen, repeated, unprocessed, lastCall, obsVars>>

\* final flush: pull until a pull adds nothing
Flush01 ==
    /\ variant \in Archive01 /\ pc = "flush"
    /\ \E ok \in BOOLEAN, rejects \in RejectSets :
        LET r == pullAndAddBatch(buffer, addedLocal, sink, ok, rejects)
        IN  /\ buffer' = r.buffer
            /\ addedLocal' = r.addedLocal
            /\ PullHistory(ok)
            /\ sink' = r.sink
            /\ totalDiscovered' = totalDiscovered + r.addedCount
            /\ pc' = IF r.addedCount = 0 THEN "done" ELSE "flush"
    /\ UNCHANGED <<visitVars, stableVars, hostVars, traceVars, error, i, listVars17, expandVars, scrollerVars, subVars,
                   discovered, idleCycles, histVars, lastCall, obsVars>>

(***************************************************************************)
(* RedditArchiveBehavior, src/09.js                                        *)
(***************************************************************************)
\* the anchors the page of a 09 visit shows to its observer and scans
ScanUrls09 == {PostHref(1), PostHref(2), Url(LocationHost, "foo", 1, << >>, "c1")}

\* href attributes: none, fragment, javascript, a permalink, a link to another
\* site, and one that new URL(href, location.href) rejects
Hrefs09 ==
    {"", "#more", "javascript:void(0)", "/r/foo/comments/1/t/", "https://example.com/x",
     "http://["}

\* href.startsWith('#') || href.startsWith('javascript:') || href === ''
fragile(href) == href \in {"", "#more", "javascript:void(0)"}

\* new URL(href, location.href) throws
HrefThrows(href) == href = "http://["

\* a faulty test: every anchor counts as not navigable
anchorNeverNavigable(a) == FALSE

\* anchorIsNavigable(a): false without href, for a fragile href and when
\* new URL throws; true on every other path
anchorIsNavigable(a) ==
    IF a.href = "" THEN FALSE
    ELSE IF fragile(a.href) THEN FALSE
    ELSE IF HrefThrows(a.href) THEN FALSE
    ELSE TRUE

\* the elements a page can show to clickOneLoadMore: anchors of every href
\* with and without the morecomments class, a fragment anchor and a button
\* with each kind of marker, and two hidden elements
Elems09 ==
    {Elem("a", h, TRUE, m) : h \in Hrefs09, m \in {"class", "none"}}
        \cup {Elem("a", "#more", TRUE, m) : m \in {"text", "dci"}}
        \cup {Elem("button", "", TRUE, m) : m \in {"text", "class", "dci", "none"}}
        \cup {Elem("button", "", FALSE, "text"), Elem("a", "#more", FALSE, "text")}

\* document.querySelectorAll(selector), in document order
ElemLists09 == SeqsUpTo(Elems09, MaxElems)

\* the for loop of clickOneLoadMore over elems: an invisible element and a
\* navigable anchor are passed over, an unmarked element too; the first marked
\* element left is clicked and the function returns
RECURSIVE clickOneLoadMore(_)
clickOneLoadMore(elems) ==
    IF elems = << >> THEN [clicked |-> FALSE, el |-> NoElem]
    ELSE LET el == Head(elems)
         IN  IF ~el.visible THEN clickOneLoadMore(Tail(elems))
             ELSE IF el.tag = "a" /\ anchorIsNavigable(el)
             THEN clickOneLoadMore(Tail(elems))
             ELSE IF el.marker \in {"text", "class", "dci"}
             THEN [clicked |-> TRUE, el |-> el]
             ELSE clickOneLoadMore(Tail(elems))

\* the hrefs of the navigable anchors the for loop of clickOneLoadMore passes
\* over before it clicks an element or runs out of elements; with
\* window.__redditArchive undefined the pushIfNew branch is skipped for each
RECURSIVE AnchorsMet(_)
AnchorsMet(elems) ==
    IF elems = << >> THEN {}
    ELSE LET el == Head(elems)
         IN  IF ~el.visible THEN AnchorsMet(Tail(elems))
             ELSE IF el.tag = "a" /\ anchorIsNavigable(el)
             THEN {el.href} \cup AnchorsMet(Tail(elems))
             ELSE IF el.marker \in {"text", "class", "dci"}
             THEN {}
             ELSE AnchorsMet(Tail(elems))

\* el.href of a navigable anchor: its href attribute resolved against the page
HrefUrl09(href) ==
    IF href = "/r/foo/comments/1/t/" THEN PostHref(1)
    ELSE Url("example.com", "", 0, << >>, "")

\* run(): the load wait (failures swallowed), then the test of
\* currentUrl.includes("/comments/") && cfg.CLICK_LOAD_MORE_COMMENTS, which on
\* a post page calls _expandCommentsOnPostPage: its locals and the first
\* test of its while loop
Start09 ==
    /\ variant = "archive09" /\ pc = "start"
    /\ i' = 0
    /\ commentsExpanded' = 0
    /\ IF mode = "thread"
       THEN /\ engines' = engines \cup {"expansion"}
            /\ pc' = IF 0 < MAX_COMMENT_LOAD_CLICKS THEN "expand" ELSE "install"
       ELSE /\ engines' = engines
            /\ pc' = "install"
    /\ UNCHANGED <<visitVars, stableVars, hostVars, traceVars, error, sink, listVars17, clickedCount, attempted,
                   consecutiveFailures, scrollerVars, subVars, pageVars, driverVars,
                   histVars, lastCall, raised, modalsRun, clickThrows, expandedMsgs>>

\* clicked < maxClicks && attempts < (maxClicks * 2 + 10)
MoreClicks09(clicked, attempts) ==
    clicked < MAX_COMMENT_LOAD_CLICKS /\ attempts < MAX_COMMENT_LOAD_CLICKS * 2 + 10

\* one iteration of the while loop of _expandCommentsOnPostPage:
\* clickOneLoadMore runs on the elements of the page, or its page.evaluate
\* throws into the catch of the function; the store of the page is not
\* installed yet, so an anchor it meets is not enqueued
Expand09 ==
    /\ variant = "archive09" /\ pc = "expand"
    /\ \/ /\ UNCHANGED <<i, commentsExpanded, scrolls, clickedEl, metAnchors>>
          /\ pc' = "install"
       \/ \E elems \in ElemLists09 :
            LET res == clickOneLoadMore(elems)
            IN  /\ metAnchors' = metAnchors \cup AnchorsMet(elems)
                /\ i' = i + 1
                /\ IF res.clicked
                   THEN /\ commentsExpanded' = commentsExpanded + 1
                        /\ clickedEl' = res.el
                        /\ scrolls' = scrolls + 1
                        /\ pc' = IF MoreClicks09(commentsExpanded + 1, i + 1)
                                 THEN "expand" ELSE "install"
                   ELSE /\ UNCHANGED <<commentsExpanded, scrolls, clickedEl>>
                        /\ pc' = IF i + 1 > 3 /\ commentsExpanded = 0
                                 THEN (IF MoreClicks09(commentsExpanded, i + 1)
                                       THEN "expand" ELSE "install")
                                 ELSE "install"
    /\ UNCHANGED <<visitVars, stableVars, hostVars, clickResults, modalVars, error, sink, listVars17,
                   clickedCount, attempted, consecutiveFailures, scrollerVars, subVars,
                   pageVars, driverVars, passVars, unprocessed, lastCall, obsVars>>

\* run(): _installPageBufferAndObserver and its initial scan, then the
\* driver's locals and the first test of the driver loop
Install09 ==
    /\ variant = "archive09" /\ pc = "install"
    /\ engines' = engines \cup {"listing"}
    /\ \E raws \in SeqsUpTo(ScanUrls09, MaxLinks) :
        LET st == PushAll([discovered |-> {}, buffer |-> << >>], raws)
        IN  discovered' = st.discovered /\ buffer' = st.buffer
    /\ idleCycles' = 0
    /\ totalDiscovered' = 0
    /\ addedLocal' = {}
    /\ UNCHANGED pullVars
    /\ pc' = IF 0 < MAX_IDLE_CYCLES09 THEN "pull1" ELSE "flush"
    /\ UNCHANGED <<visitVars, stableVars, hostVars, traceVars, error, i, sink, listVars17, expandVars, scrollerVars,
                   subVars, histVars, lastCall, raised, modalsRun, clickThrows,
                   expandedMsgs>>

\* a MutationObserver or periodic-scan callback of the page reaches an anchor
PagePush09 ==
    /\ variant = "archive09" /\ pc \in {"pull1", "scroll", "pull2", "flush"}
    /\ \E raw \in ScanUrls09 :
        LET st == pushIfNew([discovered |-> discovered, buffer |-> buffer], raw)
        IN  discovered' = st.discovered /\ buffer' = st.buffer
    /\ UNCHANGED <<visitVars, stableVars, hostVars, traceVars, pc, error, i, sink, listVars17, expandVars, scrollerVars,
                   subVars, driverVars, histVars, lastCall, obsVars>>

\* cfg.NEVER_STOP || idleCycles < cfg.MAX_IDLE_CYCLES
KeepDriving09(idle) == idle < MAX_IDLE_CYCLES09

\* driver loop: pullAndAddBatch (this.addOutlink reaches context.outlinks.add),
\* then idleCycles is reset or incremented
Pull1_09 ==
    /\ variant = "archive09" /\ pc = "pull1"
    /\ \E ok \in BOOLEAN, rejects \in RejectSets :
        LET r == pullAndAddBatch(buffer, addedLocal, sink, ok, rejects)
        IN  /\ buffer' = r.buffer
            /\ addedLocal' = r.addedLocal
            /\ PullHistory(ok)
            /\ sink' = r.sink
            /\ totalDiscovered' = totalDiscovered + r.addedCount
            /\ idleCycles' = IF r.addedCount > 0 THEN 0 ELSE idleCycles + 1
    /\ pc' = "scroll"
    /\ UNCHANGED <<visitVars, stableVars, hostVars, traceVars, error, i, listVars17, expandVars, scrollerVars, subVars,
                   discovered, histVars, lastCall, obsVars>>

\* driver loop: utils.scroll (USE_BROWSERTRIX_AUTOSCROLL is false; failures
\* swallowed) and the wait
ScrollWait09 ==
    /\ variant = "archive09" /\ pc = "scroll"
    /\ scrolls' = scrolls + 1
    /\ pc' = "pull2"
    /\ UNCHANGED <<visitVars, stableVars, hostVars, traceVars, error, i, sink, listVars17, expandVars, scrollerVars,
                   subVars, pageVars, driverVars, passVars, unprocessed, lastCall,
                   obsVars>>

\* driver loop: the pull after the wait, then the test of the while loop
Pull2_09 ==
    /\ variant = "archive09" /\ pc = "pull2"
    /\ \E ok \in BOOLEAN, rejects \in RejectSets :
        LET r == pullAndAddBatch(buffer, addedLocal, sink, ok, rejects)
            idle == IF r.addedCount > 0 THEN 0 ELSE idleCycles
        IN  /\ buffer' = r.buffer
            /\ addedLocal' = r.addedLocal
            /\ PullHistory(ok)
            /\ sink' = r.sink
            /\ totalDiscovered' = totalDiscovered + r.addedCount
            /\ idleCycles' = idle
            /\ passes' = passes + 1
            /\ idleRun' = IF idle = 0 THEN 0 ELSE idleRun + 1
            /\ productive' = IF idle = 0 THEN productive + 1 ELSE productive
            /\ pc' = IF KeepDriving09(idle) THEN "pull1" ELSE "flush"
    /\ UNCHANGED <<visitVars, stableVars, hostVars, traceVars, error, i, listVars17, expandVars, scrollerVars, subVars,
                   discovered, scrolls, seen, repeated, unprocessed, lastCall, obsVars>>

\* final flush: pull until a pull adds nothing
Flush09 ==
    /\ variant = "archive09" /\ pc = "flush"
    /\ \E ok \in BOOLEAN, rejects \in RejectSets :
        LET r == pullAndAddBatch(buffer, addedLocal, sink, ok, rejects)
        IN  /\ buffer' = r.buffer
            /\ addedLocal' = r.addedLocal
            /\ PullHistory(ok)
            /\ sink' = r.sink
            /\ totalDiscovered' = totalDiscovered + r.addedCount
            /\ pc' = IF r.addedCount = 0 THEN "done" ELSE "flush"
    /\ UNCHANGED <<visitVars, stableVars, hostVars, traceVars, error, i, listVars17, expandVars, scrollerVars, subVars,
                   discovered, idleCycles, histVars, lastCall, obsVars>>

(***************************************************************************)
(* A second run() on the same instance or page                             *)
(***************************************************************************)
\* what a new invocation of run() starts from: the locals of run() and of the
\* handlers are declared anew, the observations of the visit start over; the
\* fields of the instance and the objects of the page are not touched
FreshVisit ==
    /\ runs < MaxRuns
    /\ runs' = runs + 1
    /\ pc' = "start"
    /\ error' = "none"
    /\ i' = 0
    /\ sink' = << >>
    /\ postsFound' = 0
    /\ emptyScrolls' = 0
    /\ clickedCount' = 0
    /\ attempted' = 0
    /\ consecutiveFailures' = 0
    /\ commentsExpanded' = 0
    /\ initialPostCount' = 0
    /\ consecutiveScrollsWithNoNewPosts' = 0
    /\ discoveredPostUrls' = {}
    /\ scrollsWithoutNewPosts' = 0
    /\ addedLocal' = {}
    /\ UNCHANGED pullVars
    /\ idleCycles' = 0
    /\ totalDiscovered' = 0
    /\ scrolls' = 0
    /\ passes' = 0
    /\ idleRun' = 0
    /\ productive' = 0
    /\ seen' = {}
    /\ repeated' = FALSE
    /\ unprocessed' = << >>
    /\ lastCall' = NoCall
    /\ raised' = FALSE
    /\ engines' = {}
    /\ modalsRun' = FALSE
    /\ clickThrows' = 0
    /\ expandedMsgs' = 0
    /\ clickedEl' = NoElem
    /\ clickResults' = << >>
    /\ metAnchors' = {}
    /\ modalPasses' = 0
    /\ modalResults' = << >>
    /\ modalAttempts' = 0
    /\ UNCHANGED <<visitVars, stableVars, installed, pairVars, discoveredUrls, discovered, buffer>>

\* the host calls run() again on an o18 instance whose visit is over:
\* this.discoveredUrls was built by the constructor and run() does not touch it
Rerun18 ==
    /\ variant = "o18" /\ pc = "done"
    /\ FreshVisit

\* the host calls run() of 01 again on the page of a finished visit: the page
\* still holds window.__redditArchive
Rerun01 ==
    /\ variant = "reuse01" /\ pc = "done"
    /\ FreshVisit

\* the page-side object alone: a callback calls pushIfNew(raw); lastCall keeps
\* the raw URL, the value returned, whether its canonical form was absent
\* from the store (fresh), what the call added to buffer and store, and how
\* the call before it compares (same raw URL, same link, its result)
StorePush ==
    /\ variant = "store" /\ pc = "page"
    /\ \E raw \in RawUrls :
        LET st == pushIfNew([discovered |-> discovered, buffer |-> buffer], raw)
        IN  /\ discovered' = st.discovered
            /\ buffer' = st.buffer
            /\ lastCall' =
                [raw |-> raw, res |-> st.res,
                 fresh |-> normalize(raw) \notin discovered,
                 pushed |-> Len(st.buffer) - Len(buffer),
                 stored |-> Cardinality(st.discovered) - Cardinality(discovered),
                 prevSame |-> lastCall.raw = raw,
                 prevAlike |-> SameLink(lastCall.raw, raw),
                 prevRes |-> lastCall.res,
                 sameCanon |-> lastCall.raw # Null
                                 /\ normalize(lastCall.raw) = normalize(raw)]
    /\ UNCHANGED <<visitVars, stableVars, hostVars, traceVars, pc, error, i, sink, listVars17, expandVars, scrollerVars,
                   subVars, driverVars, histVars, obsVars>>

(***************************************************************************)
(* RedditBehavior of src/o17-sadjiosdajnoa.js: the timed listing loop that  *)
(* stops when the scroll height is stable                                   *)
(***************************************************************************)
\* what document.body.scrollHeight can measure
Heights == 0..MaxHeight

\* the time one iteration takes: the settle wait, or longer
IterationTimes == 1..2

\* the hrefs a[data-testid="post-title"] returns on the listing
StableLinkLists == SeqsUpTo({PostHref(1), PostHref(2)}, 1)

\* Date.now() - startTime < this.SCROLL_DURATION
TimeLeft(t) == t < SCROLL_DURATION

\* a faulty counter: a changed height does not reset it
StableAfterNoReset(count, newScrollHeight, last) ==
    IF newScrollHeight = last THEN count + 1 ELSE count

\* stableScrollCount after the comparison of newScrollHeight with
\* lastScrollHeight
StableAfter(count, newScrollHeight, last) ==
    IF newScrollHeight = last THEN count + 1 ELSE 0

\* stableScrollCount >= stableScrollThreshold
Stabilized(count) == count >= stableScrollThreshold

\* run(): waitForSelector('#main-content'), the settle wait and _closeModals;
\* then the locals of _handleListingPage and the first test of its while
\* loop; a timeout throws into the catch of run()
WaitStable17 ==
    /\ variant = "stable17" /\ pc = "start"
    /\ \E ready \in BOOLEAN :
        IF ready
        THEN /\ error' = "none"
             /\ modalsRun' = TRUE
             /\ engines' = engines \cup {"listing"}
             /\ pc' = IF TimeLeft(0) THEN "discover" ELSE "final"
        ELSE /\ error' = "timeout"
             /\ pc' = "done"
             /\ UNCHANGED <<modalsRun, engines>>
    /\ lastScrollHeight' = 0
    /\ stableScrollCount' = 0
    /\ elapsed' = 0
    /\ equalRun' = 0
    /\ UNCHANGED <<visitVars, hostVars, traceVars, i, sink, listVars17, expandVars,
                   scrollerVars, subVars, pageVars, driverVars, histVars, lastCall,
                   raised, clickThrows, expandedMsgs>>

\* loop body, first half: _discoverAndQueueUrls
DiscoverStable17 ==
    /\ variant = "stable17" /\ pc = "discover"
    /\ \E postLinks \in StableLinkLists :
        LET r == QueueUrls18(discoveredUrls, sink, 0, postLinks)
        IN  /\ discoveredUrls' = r.discoveredUrls
            /\ sink' = r.sink
            /\ PassHistory(postLinks, r.newUrlsFound)
    /\ pc' = "scroll"
    /\ UNCHANGED <<visitVars, stableVars, hostVars, traceVars, error, i, postsFound,
                   emptyScrolls, expandVars, scrollerVars, subVars, pageVars,
                   driverVars, scrolls, unprocessed, lastCall, obsVars>>

\* loop body, second half: window.scrollTo, the settle wait, the measurement
\* of document.body.scrollHeight, the counter and its break, the assignment
\* of lastScrollHeight, then the test of the while loop
ScrollStable17 ==
    /\ variant = "stable17" /\ pc = "scroll"
    /\ scrolls' = scrolls + 1
    /\ \E newScrollHeight \in Heights, took \in IterationTimes :
        LET count == StableAfter(stableScrollCount, newScrollHeight, lastScrollHeight)
        IN  /\ stableScrollCount' = count
            /\ elapsed' = elapsed + took
            /\ equalRun' = IF scrolls >= 1 /\ newScrollHeight = lastScrollHeight
                           THEN equalRun + 1 ELSE 0
            /\ IF newScrollHeight = lastScrollHeight /\ Stabilized(count)
               THEN /\ lastScrollHeight' = lastScrollHeight
                    /\ pc' = "final"
               ELSE /\ lastScrollHeight' = newScrollHeight
                    /\ pc' = IF TimeLeft(elapsed + took) THEN "discover" ELSE "final"
    /\ UNCHANGED <<visitVars, hostVars, traceVars, error, i, sink, listVars17, expandVars,
                   scrollerVars, subVars, pageVars, driverVars, passVars, unprocessed,
                   lastCall, obsVars>>

\* after the loop: the final _discoverAndQueueUrls
FinalStable17 ==
    /\ variant = "stable17" /\ pc = "final"
    /\ \E postLinks \in StableLinkLists :
        LET r == QueueUrls18(discoveredUrls, sink, 0, postLinks)
        IN  /\ discoveredUrls' = r.discoveredUrls
            /\ sink' = r.sink
            /\ PassHistory(postLinks, r.newUrlsFound)
    /\ pc' = "done"
    /\ UNCHANGED <<visitVars, stableVars, hostVars, traceVars, error, i, postsFound,
                   emptyScrolls, expandVars, scrollerVars, subVars, pageVars,
                   driverVars, scrolls, unprocessed, lastCall, obsVars>>

Next ==
    \/ WaitStable17
    \/ DiscoverStable17
    \/ ScrollStable17
    \/ FinalStable17
    \/ WaitForSelector17
    \/ CloseModals17
    \/ ListingInit17
    \/ Scroll17
    \/ Extract17
    \/ PostPage17
    \/ Expand17
    \/ PairStep17
    \/ WaitForSelector18
    \/ CloseModals18
    \/ ListingScroll18
    \/ Discover18
    \/ PostPage18
    \/ Expand18
    \/ Fail18
    \/ WaitForElement05
    \/ CloseModals05
    \/ WikiPage05
    \/ ListCount05
    \/ ListScroll05
    \/ ListCheck05
    \/ FinalCount05
    \/ Expand05
    \/ FinalScroll05
    \/ Run05
    \/ SubExtract05
    \/ SubScroll05
    \/ PostScroll05
    \/ PostClick05
    \/ Fail05
    \/ Install01
    \/ PagePush01
    \/ Pull1_01
    \/ ScrollWait01
    \/ Pull2_01
    \/ Flush01
    \/ Start09
    \/ Expand09
    \/ Install09
    \/ PagePush09
    \/ Pull1_09
    \/ ScrollWait09
    \/ Pull2_09
    \/ Flush09
    \/ Rerun18
    \/ Rerun01
    \/ StorePush

Spec == Init /\ [][Next]_vars

\* a step of the visit's own code, as opposed to a callback of the page
VisitStep ==
    \/ WaitStable17 \/ DiscoverStable17 \/ ScrollStable17 \/ FinalStable17
    \/ WaitForSelector17 \/ CloseModals17 \/ ListingInit17 \/ Scroll17 \/ Extract17
    \/ PostPage17 \/ Expand17
    \/ WaitForSelector18 \/ CloseModals18 \/ ListingScroll18 \/ Discover18
    \/ PostPage18 \/ Expand18 \/ Fail18
    \/ WaitForElement05 \/ CloseModals05 \/ WikiPage05 \/ ListCount05 \/ ListScroll05
    \/ ListCheck05 \/ FinalCount05 \/ Expand05 \/ FinalScroll05
    \/ Run05 \/ SubExtract05 \/ SubScroll05 \/ PostScroll05 \/ PostClick05 \/ Fail05
    \/ Install01 \/ Pull1_01 \/ ScrollWait01 \/ Pull2_01 \/ Flush01
    \/ Start09 \/ Expand09 \/ Install09 \/ Pull1_09 \/ ScrollWait09 \/ Pull2_09
    \/ Flush09

\* every await of a visit settles (each is a timed wait or a page call that
\* returns or throws), so the generator is always resumed
FairSpec == Spec /\ WF_vars(VisitStep)

(***************************************************************************)
(* Properties.                                                             *)
(***************************************************************************)
NoDuplicates(s) == \A a, b \in 1..Len(s) : a # b => s[a] # s[b]

\* the dedup store the visit's sink calls are guarded by
DedupStore == IF variant = "archive" THEN addedLocal ELSE discoveredUrls

\* C1: in a visit of the o17 behaviour or of the archive driver the sink is
\* never called twice with the same URL string, and every URL passed to the
\* sink is in the visit's dedup store (discoveredUrls, addedLocal)
C1_SinkUnique ==
    variant \in {"o17", "archive"} =>
        /\ NoDuplicates(sink)
        /\ SeqToSet(sink) \subseteq DedupStore

\* a finished o17 listing visit whose passes returned an href again and whose
\* sink was called at least twice
C1_Witness ==
    /\ variant = "o17" /\ pc = "done" /\ repeated
    /\ passes >= 3 /\ Len(sink) >= 2

\* C2: the listing loops of o17 and of the scroller perform at most maxScrolls
\* (resp. MAX_SCROLLS) scroll iterations, whatever each iteration finds, and
\* the visit then finishes
C2_ListingTerminates ==
    /\ [](variant = "o17" /\ mode = "listing" => scrolls <= maxScrolls)
    /\ [](variant = "scroller" /\ mode = "listing" => scrolls <= MAX_SCROLLS)
    /\ (variant \in {"o17", "scroller"} /\ mode = "listing" => <>(pc = "done"))

\* an o17 listing visit ended by the cap: every one of its maxScrolls
\* iterations admitted a new link
C2_Witness ==
    /\ variant = "o17" /\ mode = "listing" /\ pc = "done"
    /\ scrolls = maxScrolls /\ i = maxScrolls
    /\ idleRun = 0 /\ productive >= scrolls

\* C3: the expansion loops of o18 and of the scroller run at most
\* MAX_COMMENT_EXPANSION_LOOPS (resp. MAX_COMMENT_EXPANDS) iterations, even if
\* every iteration clicks a control, and the visit then finishes
C3_ExpansionTerminates ==
    /\ [](variant = "o18" /\ mode = "thread" => passes <= MAX_COMMENT_EXPANSION_LOOPS)
    /\ [](variant = "scroller" /\ mode = "thread" => passes <= MAX_COMMENT_EXPANDS)
    /\ (variant \in {"o18", "scroller"} /\ mode = "thread" => <>(pc = "done"))

\* an o18 thread visit ended by the cap: every iteration clicked a control
C3_Witness ==
    /\ variant = "o18" /\ mode = "thread" /\ pc = "done"
    /\ passes = MAX_COMMENT_EXPANSION_LOOPS /\ productive = passes
    /\ clickedCount > 0

\* iterations after which a loop with a hard bound has ended
HardCap == 3

\* C4: handleSubredditPage of 05 and the driver loop of the archive behaviour
\* have ended after HardCap iterations even when every iteration so far
\* admitted a new link
C4_HardBound ==
    (variant \in {"sub05", "archive"} /\ productive = passes /\ passes >= HardCap)
        => pc \in {"done", "flush"}

\* the raw URL parses against the page's location
Parses(raw) == ParseUrl(raw, LocationHost) # ParseThrows

\* C5: pushIfNew called with a raw URL that parses, on a store that does not
\* hold its canonical form, returns true and records it once in the store and
\* in the buffer; called again with the same raw URL it returns false and
\* adds nothing to the store or the buffer
C5_IdempotentAdmission ==
    (variant = "store" /\ lastCall.raw # Null) =>
        /\ (Parses(lastCall.raw) /\ lastCall.fresh) =>
                lastCall.res /\ lastCall.pushed = 1 /\ lastCall.stored = 1
        /\ lastCall.prevSame =>
                ~lastCall.res /\ lastCall.pushed = 0 /\ lastCall.stored = 0

\* the second of two successive calls with one raw URL that carries a
\* fragment, the first of which admitted it
C5_Witness ==
    /\ variant = "store" /\ lastCall.raw # Null
    /\ lastCall.prevSame /\ lastCall.prevRes /\ ~lastCall.res
    /\ lastCall.raw.frag # ""

\* C5 as stated, for all raw URLs: the first call on a store without the
\* canonical form returns true, the second false without effect
C5_AllRawUrls ==
    (variant = "store" /\ lastCall.raw # Null) =>
        /\ lastCall.fresh => lastCall.res
        /\ lastCall.prevSame =>
                ~lastCall.res /\ lastCall.pushed = 0 /\ lastCall.stored = 0

Canonical(url) ==
    /\ url.host \notin {"", "["}
    /\ url.frag = ""
    /\ \A k \in 1..Len(url.query) : url.query[k][1] \notin TrackingParams

\* C7: every URL the listing pass of o17 and o18 hands to ctx.addUrl is in
\* canonical form, and two hrefs that differ only by fragment or tracking
\* parameter cause at most one ctx.addUrl call
C7_SinkCanonical ==
    variant \in {"o17", "o18"} =>
        /\ \A k \in 1..Len(sink) : Canonical(sink[k])
        /\ \A a, b \in 1..Len(sink) : a # b => ~SameLink(sink[a], sink[b])

\* C8: an href that does not parse is turned down without effect: pushIfNew
\* returns false and leaves store and buffer alone, the href never reaches a
\* sink, and the pass of o18 that meets it examines its remaining hrefs and
\* does not end the visit with an exception
C8_MalformedRejected ==
    /\ Malformed \notin SeqToSet(sink)
    /\ Malformed \notin discovered \cup discoveredUrls \cup addedLocal
    /\ (variant = "store" /\ lastCall.raw = Malformed) =>
            ~lastCall.res /\ lastCall.pushed = 0 /\ lastCall.stored = 0
    /\ variant = "o18" => error # "url" /\ unprocessed = << >>

\* C9: in the listing loop of o17 an iteration that admits a link leaves
\* emptyScrolls at 0 for the next iteration and one that admits none leaves
\* it one higher, and the scroll in between does not touch it; the same for
\* consecutiveFailures and successful clicks in the expansion loop of o18
C9_IdleReset ==
    [][ /\ (variant = "o17" /\ pc = "extract") =>
                emptyScrolls' = IF Len(sink') > Len(sink) THEN 0 ELSE emptyScrolls + 1
        /\ (variant = "o17" /\ pc = "scroll") => emptyScrolls' = emptyScrolls
        /\ (variant = "o18" /\ pc = "expand" /\ error' = "none") =>
                consecutiveFailures' =
                    IF clickedCount' > 0 THEN 0 ELSE consecutiveFailures + 1
      ]_vars

\* a productive iteration of o17 has just reset a counter that unproductive
\* iterations had raised
C9_Witness ==
    /\ variant = "o17" /\ pc = "scroll"
    /\ emptyScrolls = 0 /\ idleRun = 0
    /\ productive >= 1 /\ passes - productive >= 2

\* the most recent consecutive unproductive passes that followed a scroll:
\* the pass made before the first scroll is not one of them
IdleScrollRun == IF productive = 0 /\ passes > 0 THEN idleRun - 1 ELSE idleRun

\* the visit is inside the listing loop of o17
InLoop17 == variant = "o17" /\ pc \in {"scroll", "extract"}

\* the listing loop of o17 has ended
Ended17 == variant = "o17" /\ mode = "listing" /\ pc = "done" /\ error = "none"

\* C10: the listing loop of o17 ends right after the third consecutive
\* unproductive pass that followed a scroll, or at the iteration cap, and at
\* no other point; 2 new links on pass 1 and none on passes 2 to 4 end it
\* after pass 4 with 2 sink calls; the sink calls number the distinct hrefs
\* seen
C10_IdleStop ==
    (variant = "o17" /\ mode = "listing") =>
        /\ InLoop17 => IdleScrollRun < maxEmptyScrolls
        /\ Ended17 => IdleScrollRun = maxEmptyScrolls \/ i = maxScrolls
        /\ (Cardinality(seen) = 2 /\ productive = 1 /\ idleRun = 3 /\ passes = 4)
                => pc = "done" /\ Len(sink) = 2
        /\ (productive = 1 /\ idleRun = passes - 1 /\ passes \in 1..3)
                => pc # "done"
        /\ Len(sink) = Cardinality(seen)

\* pass 1 returned 2 new links, passes 2 to 4 none, and the loop has ended
C10_Witness ==
    /\ Ended17 /\ passes = 4 /\ productive = 1 /\ idleRun = 3
    /\ Cardinality(seen) = 2 /\ Len(sink) = 2 /\ i < maxScrolls

\* C10 as stated: the loop ends right after the third consecutive
\* unproductive pass, whichever pass that is
C10_AnyPass ==
    (variant = "o17" /\ mode = "listing") =>
        /\ InLoop17 => idleRun < maxEmptyScrolls
        /\ Ended17 => idleRun = maxEmptyScrolls \/ i = maxScrolls

\* the expansion loop of o18 has run and no page call other than a click has
\* failed
Expanding18 ==
    /\ variant = "o18" /\ mode = "thread" /\ error \in {"none", "click"}
    /\ pc \in {"expand", "done"} /\ "expansion" \in engines

\* C11: in the expansion loop of o18 a throwing click never leaves the loop
\* as an exception, an 'Expanded' message is yielded only by an iteration
\* with a successful click, and when no click of the visit succeeds the loop
\* ends after exactly maxConsecutiveFailures (3) iterations
C11_FailingClicks ==
    Expanding18 =>
        /\ error # "click"
        /\ expandedMsgs = productive
        /\ (productive = 0 /\ pc = "done") =>
                passes = maxConsecutiveFailures18 /\ expandedMsgs = 0
        /\ (productive = 0 /\ passes < maxConsecutiveFailures18) => pc = "expand"

\* the loop has ended after 3 iterations in each of which every one of
\* MaxElems click attempts threw
C11_Witness ==
    /\ Expanding18 /\ pc = "done" /\ productive = 0
    /\ passes = 3 /\ clickThrows = 3 * MaxElems /\ attempted = MaxElems

\* C12: when the readiness wait of o17, o18 or the scroller times out, the
\* visit is over: modal dismissal has not run, no engine was entered, nothing
\* was scrolled, extracted, clicked or forwarded, and no exception reached
\* the host
C12_ReadinessTimeout ==
    (variant \in {"o17", "o18", "scroller"} /\ error = "timeout") =>
        /\ pc = "done" /\ ~raised
        /\ ~modalsRun /\ engines = {}
        /\ scrolls = 0 /\ passes = 0
        /\ attempted = 0 /\ clickedCount = 0 /\ clickThrows = 0
        /\ sink = << >>

\* a visit of o18 whose readiness wait timed out
C12_Witness == variant = "o18" /\ error = "timeout" /\ pc = "done"

\* C13: whatever page call of a visit fails, run() completes normally: the
\* failure is recovered or caught inside run() and never reaches the host
C13_NothingRaised ==
    /\ ~raised
    /\ (variant = "o18" /\ error # "none") => pc = "done"

\* the visit has attempted a comment-expansion click
ClickAttempted == commentsExpanded > 0 \/ clickThrows > 0 \/ expandedMsgs > 0

\* the visit has entered listing discovery or forwarded a link
ListingActed == "listing" \in engines \/ sink # << >>

\* C14: a visit of o18 or of the 09 archive behaviour that has attempted an
\* expansion click performs no listing discovery (scroll loop, extraction,
\* sink call), and a visit that performs listing discovery attempts no
\* expansion click
C14_EnginesExclusive ==
    variant \in {"o18", "archive09"} => ~(ClickAttempted /\ ListingActed)

\* the engines run() of RedditScrollerBehavior has entered once past dispatch
Dispatched05 == variant = "scroller" /\ pc \notin {"start", "modals"} /\ error # "timeout"

\* C15: past dispatch, a visit of /r/foo/comments/abc/title/ has entered the
\* expansion engine only, one of /r/foo/wiki/index the wiki handler only, one
\* of /r/foo/ the listing engine only, and one of a string that is not a URL
\* no engine at all (the URL error is caught and the visit is over)
C15_ModeDispatch ==
    Dispatched05 =>
        /\ ctxUrl = CtxUrl(<<"r", "foo", "comments", "abc", "title">>, TRUE)
               => engines = {"expansion"} /\ mode = "thread"
        /\ ctxUrl = CtxUrl(<<"r", "foo", "wiki", "index">>, FALSE)
               => engines = {"wiki"} /\ mode = "wiki"
        /\ ctxUrl = CtxUrl(<<"r", "foo">>, TRUE)
               => engines = {"listing"} /\ mode = "listing"
        /\ ctxUrl = NotAUrl
               => engines = {} /\ mode = "unknown" /\ error = "url" /\ pc = "done"

C15_Witness ==
    /\ Dispatched05 /\ pc = "done" /\ passes > 0
    /\ ctxUrl = CtxUrl(<<"r", "foo", "comments", "abc", "title">>, TRUE)

\* C16: a visit of RedditScrollerBehavior whose URL is malformed or matches
\* neither pattern has, past dispatch, entered the listing engine and never
\* the expansion engine
C16_UnknownAsListing ==
    (Dispatched05 /\ ~isCommentPage(ctxUrl) /\ ~isWikiPage(ctxUrl)) =>
        engines = {"listing"}

\* what the o17 visit has stored equals what it has forwarded
Forwarded17 == variant = "o17" => discoveredUrls = SeqToSet(sink)

\* C17: at every scroll of the listing loop the URLs of the visit's dedup
\* store are the URLs already forwarded to the sink, for _discoverAndQueueUrls
\* of o17 and for handleSubredditPage of 05-waadwaw.js
C17_ImmediateForwarding ==
    pc = "scroll" =>
        /\ Forwarded17
        /\ variant = "sub05" => discoveredPostUrls = SeqToSet(sink)

\* the dedup store of the visit: this.discoveredUrls of o18, the discovered
\* map of window.__redditArchive for 01
VisitStore == IF variant = "o18" THEN discoveredUrls ELSE discovered

\* C18: when run() is entered, on an o18 instance or on a page driven by 01,
\* the visit's dedup store is empty, also when the instance or the page has
\* served an earlier run
C18_StoreFreshAtStart ==
    (variant \in {"o18", "archive", "reuse01"} /\ pc = "start") => VisitStore = {}

SiteHosts == {"www.reddit.com", "reddit.com", "old.reddit.com"}

\* the path of every stored URL begins with /r/<currentSubreddit>/comments/,
\* and an iteration counts as productive only when it stores such a URL
StoredInSubreddit ==
    variant = "sub05" =>
        /\ \A h \in discoveredPostUrls :
              /\ h.ok /\ Len(h.segs) >= 3
              /\ <<h.segs[1], h.segs[2], h.segs[3]>> = <<"r", ctxUrl.segs[2], "comments">>
              /\ (Len(h.segs) > 3 \/ h.slash)
        /\ productive <= Cardinality(discoveredPostUrls)

\* C20: in handleSubredditPage every URL of discoveredPostUrls has a path that
\* begins with /r/<currentSubreddit>/comments/ and is a link of the site, not
\* of an external one; an iteration that meets only other links is not
\* productive
C20_CurrentSubredditOnly ==
    /\ StoredInSubreddit
    /\ variant = "sub05" => \A h \in discoveredPostUrls : h.host \in SiteHosts

\* what the pulls of the visit have taken out of the page's buffer: every
\* stored URL was buffered once, and only a pull removes from the buffer
Pulled == discovered \ SeqToSet(buffer)

\* one call of pullAndAddBatch forwards at most MAX_BATCH_SIZE URLs
BatchCap ==
    [][(variant \in {"archive", "archive09"})
            => (Len(sink') <= Len(sink) + MAX_BATCH_SIZE)]_vars

\* C21: when run() of the 01 or the 09 driver has finished, every URL a pull
\* took out of the in-page buffer has been forwarded to context.outlinks, also
\* when a pull returned more than MAX_BATCH_SIZE URLs
C21_BatchDefers ==
    (variant \in {"archive", "archive09"} /\ pc = "done") =>
        Pulled \subseteq SeqToSet(sink)

\* the href attribute of the element opens another document: it is not
\* empty and starts neither with '#' nor with 'javascript:'
NavigableHref(el) ==
    /\ el.href # ""
    /\ el.href \notin {"#more", "javascript:void(0)"}

\* C22: the element a clickOneLoadMore call of _expandCommentsOnPostPage has
\* clicked is never an anchor whose href is navigable and parses against the
\* page's location; it is a non-anchor element, an anchor with an empty,
\* fragment or javascript href, or an anchor whose href new URL rejects
C22_SafeClicks ==
    (variant = "archive09" /\ clickedEl # NoElem) =>
        /\ clickedEl.visible /\ clickedEl.marker # "none"
        /\ ~(clickedEl.tag = "a" /\ NavigableHref(clickedEl) /\ clickedEl.href # "http://[")

\* a 09 visit whose second click was on a visible anchor of class morecomments
\* with a fragment href
C22_Witness ==
    /\ variant = "archive09" /\ commentsExpanded = 2
    /\ clickedEl = Elem("a", "#more", TRUE, "class")

\* C22 as stated: no anchor with a non-empty href that starts neither with
\* '#' nor with 'javascript:' is ever clicked
C22_NoNavigableAnchor ==
    (variant = "archive09" /\ clickedEl # NoElem) =>
        ~(clickedEl.tag = "a" /\ NavigableHref(clickedEl))

\* the number of TRUE entries of a sequence of click results
RECURSIVE Returned(_)
Returned(results) ==
    IF results = << >> THEN 0
    ELSE (IF Head(results) THEN 1 ELSE 0) + Returned(Tail(results))

\* C23: after an iteration of _expandCommentThreads of o18 the click attempts
\* of the iteration number the elements its queries returned, whether or not
\* some of them threw, and clickedCount is the number of clicks that returned
C23_EveryElementTried ==
    (variant = "o18" /\ passes > 0 /\ error = "none") =>
        /\ attempted = Len(clickResults)
        /\ clickedCount = Returned(clickResults)

\* an iteration whose first click threw and whose second returned
C23_Witness ==
    /\ variant = "o18" /\ passes > 0 /\ error = "none"
    /\ clickResults = <<FALSE, TRUE>> /\ clickedCount = 1 /\ attempted = 2

\* a visit of handlePostPage of the 05 RedditBehavior that has ended by itself
PostPageEnded05 ==
    /\ variant = "sub05" /\ "expansion" \in engines
    /\ pc = "done" /\ ~raised /\ passes > 0

\* C24: handlePostPage ends only because findLoadMoreButton found no button
\* in its last iteration or because the iteration cap is reached; a click
\* that throws does not end it
C24_ClickFailureRecovered ==
    PostPageEnded05 => (attempted = 0 \/ i = MAX_EXPANSIONS)

\* the expansion loop of o17 has ended on an iteration without a successful
\* click
StoppedOnZeroClicks17 ==
    /\ variant = "o17" /\ "expansion" \in engines /\ error = "none"
    /\ pc = "done" /\ passes > 0 /\ clickedCount = 0

\* C25: _expandCommentThreads of o17 stops on an iteration without a
\* successful click only when that iteration is the third such iteration in
\* a row; after one or two it goes on to another iteration
C25_FailureThreshold ==
    StoppedOnZeroClicks17 => idleRun >= 3

\* a listing visit of o17 that ran to its end without an error
ListingEnded17 ==
    variant = "o17" /\ "listing" \in engines /\ pc = "done" /\ error = "none"

\* a listing visit of handleSubredditPage that entered its loop and left it
ListingEnded05 ==
    variant = "sub05" /\ "listing" \in engines /\ pc = "done" /\ ~raised /\ passes > 0

\* C26: when a listing visit has ended, one extraction pass has run after the
\* last scroll and its wait, so there is one more extraction pass than there
\* are scrolls, in _handleListingPage of o17 and in handleSubredditPage of 05
C26_FinalExtraction ==
    /\ ListingEnded17 => passes = scrolls + 1
    /\ ListingEnded05 => passes = scrolls + 1

\* the half of C26 that is about o17 alone
FinalExtraction17 == ListingEnded17 => passes = scrolls + 1

\* the pathname has a segment "wiki"
HasWikiSegment(u) == u.ok /\ \E k \in 1..Len(u.segs) : u.segs[k] = "wiki"

\* C27: a visit URL whose path contains both "/comments/" and a wiki segment
\* is dispatched by run() of RedditScrollerBehavior to the thread handler,
\* never to the wiki handler
C27_ThreadWins ==
    (variant = "scroller" /\ modalsRun
        /\ IncludesComments(ctxUrl) /\ HasWikiSegment(ctxUrl)) =>
            engines = {"expansion"}

\* the dispatch of run() is the one classify computes from the URL alone
DispatchByUrl05 ==
    (variant = "scroller" /\ modalsRun) =>
        engines = CASE classify(ctxUrl) = "thread" -> {"expansion"}
                    [] classify(ctxUrl) = "wiki" -> {"wiki"}
                    [] classify(ctxUrl) = "listing" -> {"listing"}
                    [] OTHER -> {}

\* a visit of handleSubredditPage with a URL outside /r/<name>/ has returned
OffSubredditEnded05 ==
    /\ variant = "sub05" /\ "listing" \in engines /\ pc = "done" /\ ~raised
    /\ ctxUrl.ok /\ ~IncludesComments(ctxUrl) /\ NotSubredditPage(ctxUrl)

\* C28: a visit of handleSubredditPage whose URL is parsable, is not a thread
\* and is not under /r/<name>/ has run at least one extraction pass and one
\* scroll when it returns
C28_DegradesToListing == OffSubredditEnded05 => (passes >= 1 /\ scrolls >= 1)

\* the engine run() of o18 dispatched has performed an action in this visit
EngineActed18 ==
    \/ engines # {} \/ scrolls > 0 \/ passes > 0
    \/ attempted > 0 \/ clickResults # << >> \/ sink # << >>

\* C29: in a visit of run() of o18, _closeModals is executed at most once,
\* only after the readiness wait has succeeded, and it has been executed
\* whenever the dispatched engine has scrolled, extracted, clicked or emitted
C29_ModalsOnceBeforeEngine ==
    variant = "o18" =>
        /\ modalPasses <= 1
        /\ modalPasses = 1 => (pc # "start" /\ error # "timeout")
        /\ EngineActed18 => modalPasses = 1

\* an expansion engine that has iterated more than once after one dismissal
C29_Witness ==
    /\ variant = "o18" /\ modalPasses = 1 /\ "expansion" \in engines
    /\ passes >= 2 /\ pc = "done" /\ error = "none"

\* what _closeModals did in a visit of o18 whose dismissal has returned
ModalsReturned18 == variant = "o18" /\ modalPasses > 0

\* C30: _closeModals makes exactly one click attempt per candidate element,
\* whether or not earlier clicks threw, and after it has returned the visit
\* ends only in an engine or by a failing page call of the engine
C30_OneAttemptPerCandidate ==
    ModalsReturned18 =>
        /\ modalAttempts = Len(modalResults)
        /\ pc # "modals"
        /\ (pc = "done" /\ error = "none") => engines # {}

\* the first dismissal click threw, the second was still attempted, and the
\* listing engine ran to its end
C30_Witness ==
    /\ variant = "o18" /\ modalResults = <<FALSE, TRUE>> /\ modalAttempts = 2
    /\ engines = {"listing"} /\ pc = "done" /\ error = "none" /\ passes > 0

\* a visit of RedditScrollerBehavior whose URL is under /r/<name>/wiki/ has
\* passed the dispatch of run()
WikiVisit05 ==
    variant = "scroller" /\ ctxUrl.ok /\ isWikiPage(ctxUrl) /\ modalsRun

\* C31: a visit of RedditScrollerBehavior on a wiki URL runs the wiki handler
\* only, scrolls at most once and exactly once when it has ended, attempts no
\* expansion click, runs no discovery pass and forwards nothing to the sink
C31_WikiSingleScroll ==
    WikiVisit05 =>
        /\ engines = {"wiki"}
        /\ scrolls = (IF pc = "done" THEN 1 ELSE 0)
        /\ attempted = 0 /\ clickedCount = 0 /\ clickThrows = 0
        /\ passes = 0 /\ initialPostCount = 0
        /\ sink = << >>

\* a wiki visit that has ended after its one scroll
C31_Witness ==
    WikiVisit05 /\ pc = "done" /\ error = "none" /\ scrolls = 1 /\ engines = {"wiki"}

\* the canonical URLs of the navigable anchors the expansion of 09 has met
MetUrls09 == {normalize(HrefUrl09(h)) : h \in metAnchors}

\* C32: every navigable anchor _expandCommentsOnPostPage has met is in the
\* page-side store, and when run() has ended it has been forwarded to the
\* outlinks sink
C32_MetAnchorsEnqueued ==
    variant = "archive09" =>
        /\ pc \notin {"start", "expand", "install"} => MetUrls09 \subseteq discovered
        /\ pc = "done" => MetUrls09 \subseteq SeqToSet(sink)

\* the expansion of 09 has ended, an attempt of it returned without a click
\* and no attempt clicked anything
ExpansionEndedEmpty09 ==
    /\ variant = "archive09" /\ "expansion" \in engines
    /\ pc \notin {"start", "expand"}
    /\ i >= 1 /\ commentsExpanded = 0

\* C33: an expansion of 09 that ended without any click has made at least
\* two attempts: the one that found nothing and a retry after the wait
C33_SlowRenderRetry == ExpansionEndedEmpty09 => i >= 2

\* the while loop of _handleListingPage of o17-sadjiosdajnoa has been left
LoopOverStable17 == variant = "stable17" /\ pc \in {"final", "done"} /\ error = "none"

\* the loop was left by the break of the stabilisation test
EndedEarlyStable17 == LoopOverStable17 /\ Stabilized(stableScrollCount)

\* every measurement so far was 0, the initial value of lastScrollHeight
AllZeroStable17 == scrolls >= 1 /\ lastScrollHeight = 0 /\ equalRun = scrolls - 1

\* C34: the loop of _handleListingPage ends early exactly when the scroll
\* height has equalled lastScrollHeight (the measurement of the iteration
\* before, or 0 before the first measurement) in 3 consecutive iterations; an
\* iteration whose height differs resets stableScrollCount to 0; otherwise the
\* loop ends only when SCROLL_DURATION is used up
C34_StabilisationStop ==
    variant = "stable17" =>
        /\ stableScrollCount = equalRun + (IF AllZeroStable17 THEN 1 ELSE 0)
        /\ stableScrollCount <= stableScrollThreshold
        /\ LoopOverStable17 => (Stabilized(stableScrollCount) \/ ~TimeLeft(elapsed))
        /\ pc \in {"discover", "scroll"} =>
                (~Stabilized(stableScrollCount) /\ TimeLeft(elapsed))

\* the loop ended early on a page whose height stayed at 1 from the first
\* measurement on: four iterations, three of them equal to the one before
C34_Witness ==
    /\ EndedEarlyStable17 /\ pc = "done" /\ lastScrollHeight = 1
    /\ equalRun = 3 /\ scrolls = 4 /\ TimeLeft(elapsed)

\* C34 as stated: the loop ends early only after 3 consecutive iterations
\* whose height equalled the measurement of the iteration before
C34_ThreeEqualIterations == EndedEarlyStable17 => equalRun >= 3

\* the step in which the final flush of the 01 driver ends and run() returns
LastPull01 == variant \in Archive01 /\ pc = "flush" /\ pc' = "done"

C36_BufferedOnce ==
    variant \in Archive01 =>
        /\ NoDuplicates(buffer)
        /\ SeqToSet(buffer) \subseteq discovered
        /\ SeqToSet(buffer) \cap pulledSet = {}
        /\ pulledSet \subseteq discovered
        /\ ~pulledTwice

\* callbacks of the page have pushed two URLs between two pulls of the
\* driver, after an earlier pull had returned one
C36_Witness ==
    /\ variant = "archive" /\ pc = "pull2"
    /\ pulledSet # {} /\ Len(buffer) = 2 /\ Len(sink) >= 1


\* C37: discovery counters match emissions. Between the extraction passes of
\* an o17 visit state.postsFound (0 at construction) equals the number of
\* ctx.addUrl calls made and the size of discoveredUrls; between the pulls of
\* a 01 visit totalDiscovered equals the size of addedLocal and the number of
\* outlinks.add calls that did not throw.
C37_CountersMatchEmissions ==
    /\ variant = "o17" =>
           /\ postsFound = Len(sink)
           /\ postsFound = Cardinality(discoveredUrls)
    /\ variant \in Archive01 =>
           /\ totalDiscovered = Cardinality(addedLocal)
           /\ totalDiscovered = Len(sink)

\* a 01 visit in which an outlinks.add threw for a pulled URL and another
\* pulled URL was added
C37_Witness ==
    /\ variant = "archive"
    /\ PostHref(2) \in pulledSet /\ PostHref(2) \notin addedLocal
    /\ totalDiscovered >= 1


\* the scrolls and clicks a visit has performed
actsPerformed == <<scrolls, attempted, clickResults, clickThrows, clickedEl, modalAttempts>>

\* an idle counter of the visit has reached its threshold
ThresholdReached ==
    \/ variant = "o18" /\ consecutiveFailures >= maxConsecutiveFailures18
    \/ variant = "o17" /\ emptyScrolls >= maxEmptyScrolls

\* the bounds of the idle counters and of the loop index
IdleCountersBounded ==
    /\ variant = "o18" =>
           /\ 0 <= consecutiveFailures
           /\ consecutiveFailures <= maxConsecutiveFailures18
           /\ pc = "expand" => i < MAX_COMMENT_EXPANSION_LOOPS
    /\ variant = "o17" =>
           /\ 0 <= emptyScrolls
           /\ emptyScrolls <= maxEmptyScrolls

\* C38: idle counters stay within their bounds. In the expansion loop of o18
\* 0 <= consecutiveFailures <= 3 and the loop index is below
\* MAX_COMMENT_EXPANSION_LOOPS, in the listing loop of o17
\* 0 <= emptyScrolls <= maxEmptyScrolls, and once a counter has reached its
\* threshold the run performs no further scroll or click.
C38_IdleCountersWithinBounds ==
    /\ []IdleCountersBounded
    /\ [][(ThresholdReached /\ runs' = runs) => UNCHANGED actsPerformed]_vars

\* an o18 visit whose expansion loop ended on the third iteration in a row
\* without a click, after an iteration that had clicked
C38_Witness ==
    /\ variant = "o18" /\ pc = "done" /\ error = "none"
    /\ consecutiveFailures = maxConsecutiveFailures18
    /\ productive >= 1 /\ i < MAX_COMMENT_EXPANSION_LOOPS


\* C39: a Thread visit leaves discovery state untouched. A visit of o18 on a
\* URL containing '/comments/' is dispatched to the expansion engine and,
\* whatever the page shows and however many controls are clicked, over every
\* run() on the instance discoveredUrls stays as the constructor left it
\* (empty), ctx.addUrl is never called and the listing engine never acts.
C39_ThreadLeavesDiscoveryUntouched ==
    (variant = "o18" /\ mode = "thread") =>
        /\ discoveredUrls = {}
        /\ sink = << >>
        /\ "listing" \notin engines
        /\ passes > 0 => "expansion" \in engines

\* the second run() on a Thread page has ended: an iteration clicked a
\* control, the last iteration tried one whose click threw
C39_Witness ==
    /\ variant = "o18" /\ mode = "thread" /\ runs = 2
    /\ pc = "done" /\ error = "none"
    /\ productive >= 1 /\ clickedCount = 0 /\ attempted >= 1
    /\ "expansion" \in engines

====
